---- MODULE Spec2Model ----
(***************************************************************************)
(* Model of the tmc5072 register driver: the bit-field helpers (bits.rs),  *)
(* the register catalogue (registers/*.rs), the SPI status byte            *)
(* (status.rs), the SPI result types (spi.rs) and the transaction engine   *)
(* Tmc5072::{new, read_register, write_register, read_raw, write_raw}      *)
(* (lib.rs).                                                               *)
(*                                                                         *)
(* Machine integers are modelled as bit vectors: a value of type uN / iN   *)
(* is the set of the positions (0 = least significant) of its 1 bits, a    *)
(* subset of 0..N-1.  The bit operators of the source then are set         *)
(* operations, computed exactly as the hardware computes them, and a       *)
(* 32-bit word is represented without any loss (TLC's own integers are     *)
(* 32-bit signed and cannot hold a u32).  An iN value is its two's         *)
(* complement bit pattern.                                                 *)
(***************************************************************************)
EXTENDS Integers, FiniteSets, Sequences, TLC

VARIABLES
    driver,  \* TRUE iff Tmc5072::new has returned a driver instance
    buffer,  \* Tmc5072.buffer: [u8; 5]
    cs,      \* the level of the select line: "low" is asserted
    pc,      \* the position of the running call, "idle" when none runs
    op,      \* the running (or last) call and its arguments
    log,     \* the pin and bus calls made by the running (or last) call
    result   \* what the last call returned

VARIABLES
    creg,    \* the register type R a caller of the codec converts
    cin,     \* that caller's input: a wire word, or a value of type R
    cmid,    \* the result of the first conversion
    cout,    \* the result of the second conversion
    cstep    \* the number of conversions done

evars == <<driver, buffer, cs, pc, op, log, result>>

cvars == <<creg, cin, cmid, cout, cstep>>

vars == <<driver, buffer, cs, pc, op, log, result, creg, cin, cmid, cout, cstep>>

\* ------------------------------------------------------------------------
\* Bit vectors
\* ------------------------------------------------------------------------

\* The bit pattern of the natural number n (n < 2^31).
Bits(n) == {i \in 0..30 : (n \div (2 ^ i)) % 2 = 1}

\* 0xffffffff, the one mask of the source that no TLC integer holds.
U32_MAX == 0..31

\* Rust's `a << n` on a w-bit integer: bits shifted past the top are dropped.
Shl(a, n, w) == {b + n : b \in a} \cap (0..(w - 1))

\* Rust's `a >> n` on an unsigned integer.
Shr(a, n) == {b - n : b \in {x \in a : x >= n}}

\* Rust's `!a` on a w-bit integer.
Not(a, w) == (0..(w - 1)) \ a

\* Rust's `a ^ b`.
Xor(a, b) == (a \ b) \cup (b \ a)

\* Wrapping `a + 1` on a w-bit integer.
Inc(a, w) == IF \A i \in 0..(w - 1) : i \in a THEN {}
             ELSE LET k == CHOOSE i \in 0..(w - 1) : i \notin a /\ \A j \in 0..(i - 1) : j \in a
                  IN  (a \cup {k}) \ (0..(k - 1))

\* Wrapping `a - 1` on a w-bit integer.
Dec(a, w) == IF a \cap (0..(w - 1)) = {} THEN 0..(w - 1)
             ELSE LET k == CHOOSE i \in a : \A j \in 0..(i - 1) : j \notin a
                  IN  (a \ {k}) \cup (0..(k - 1))

\* A faulty negation: the one's complement.
Neg_ones_complement(a, w) == Not(a, w)

\* Wrapping `-a` on a w-bit signed integer.
Neg(a, w) == Inc(Not(a, w), w)

\* A narrowing `as` cast (`as u8`, `as u16`, `as i16`): keeps the low w bits.
Trunc(x, w) == x \cap (0..(w - 1))

\* A widening `as` cast of a signed w-bit source to 32 bits (`i16 as u32`,
\* `i16 as i32`): sign-extends.  Widening an unsigned source and casting between
\* u32 and i32 keep the bits, and are written without an operator.
SignExt(x, w) == IF (w - 1) \in x THEN x \cup (w..31) ELSE x

\* ------------------------------------------------------------------------
\* bits.rs
\* ------------------------------------------------------------------------

\* (data & (T::from(1u8) << bit)) != T::from(0u8)
read_bool_from_bit(data, bit) == (data \cap {bit}) # {}

\* *data |= 1 << bit   or   *data &= !(1 << bit)
write_bool_to_bit(data, bit, value) == IF value THEN data \cup {bit} ELSE data \ {bit}

\* A faulty read_from_bit: the shifted word is not masked.
read_from_bit_unmasked(data, from, mask) == Shr(data, from)

\* (data >> from) & mask
read_from_bit(data, from, mask) == Shr(data, from) \cap mask

\* A faulty write_from_bit: the value is not shifted to its offset.
write_from_bit_unshifted(data, from, mask, value) ==
    Xor(data, data \cap Shl(mask, from, 32)) \cup value

\* A faulty write_from_bit: the mask is not shifted to the offset when the
\* bits are cleared.
write_from_bit_mask_unshifted(data, from, mask, value) ==
    Xor(data, data \cap mask) \cup Shl(value, from, 32)

\* A write_from_bit that masks the value before shifting it.
write_from_bit_masked(data, from, mask, value) ==
    Xor(data, data \cap Shl(mask, from, 32)) \cup Shl(value \cap mask, from, 32)

\* A faulty write_from_bit: the span is not cleared before the value is or-ed in.
write_from_bit_uncleared(data, from, mask, value) == data \cup Shl(value, from, 32)

\* *data ^= *data & (mask << from); *data |= value << from;   (T = u32)
write_from_bit(data, from, mask, value) ==
    Xor(data, data \cap Shl(mask, from, 32)) \cup Shl(value, from, 32)

\* A faulty convert_to_signed_n: no sign extension.
convert_to_signed_n_unextended(from, bits) == from

\* if from >> (bits - 1) & 1 == 1 { (!((1 << bits) - 1)) | from as i32 } else { from as i32 }
\* (1 << bits) - 1 is i32 arithmetic; it is modelled wrapping.
convert_to_signed_n(from, bits) ==
    IF (Shr(from, bits - 1) \cap Bits(1)) = Bits(1)
    THEN Not(Dec(Shl(Bits(1), bits, 32), 32), 32) \cup from
    ELSE from

\* from as u32 & ((1 << bits) - 1)
convert_from_signed_n(from, bits) == from \cap Dec(Shl(Bits(1), bits, 32), 32)

\* encoder_registers.rs 62-79: impl From<u32> for EncMode
EncMode_from_u32(data) ==
    [ pol_a |-> read_bool_from_bit(data, 0),
      pol_b |-> read_bool_from_bit(data, 1),
      pol_n |-> read_bool_from_bit(data, 2),
      ignore_ab |-> read_bool_from_bit(data, 3),
      clr_cont |-> read_bool_from_bit(data, 4),
      clr_once |-> read_bool_from_bit(data, 5),
      pos_edge |-> read_bool_from_bit(data, 6),
      neg_edge |-> read_bool_from_bit(data, 7),
      clr_enc_x |-> read_bool_from_bit(data, 8),
      latch_x_act |-> read_bool_from_bit(data, 9),
      enc_sel_decimal |-> read_bool_from_bit(data, 10),
      latch_now |-> read_bool_from_bit(data, 11) ]

\* encoder_registers.rs 81-98: impl From<EncMode> for u32
u32_from_EncMode(data) ==
    LET value0 == Bits(0)
        value1 == write_bool_to_bit(value0, 0, data.pol_a)
        value2 == write_bool_to_bit(value1, 1, data.pol_b)
        value3 == write_bool_to_bit(value2, 2, data.pol_n)
        value4 == write_bool_to_bit(value3, 3, data.ignore_ab)
        value5 == write_bool_to_bit(value4, 4, data.clr_cont)
        value6 == write_bool_to_bit(value5, 5, data.clr_once)
        value7 == write_bool_to_bit(value6, 6, data.pos_edge)
        value8 == write_bool_to_bit(value7, 7, data.neg_edge)
        value9 == write_bool_to_bit(value8, 8, data.clr_enc_x)
        value10 == write_bool_to_bit(value9, 9, data.latch_x_act)
        value11 == write_bool_to_bit(value10, 10, data.enc_sel_decimal)
        value12 == write_bool_to_bit(value11, 11, data.latch_now)
    IN  value12

\* encoder_registers.rs 152-158: impl From<u32> for XEnc
XEnc_from_u32(data) ==
    [ x_enc |-> read_from_bit(data, 0, U32_MAX) ]

\* encoder_registers.rs 160-166: impl From<XEnc> for u32
u32_from_XEnc(data) ==
    LET value0 == Bits(0)
        value1 == write_from_bit(value0, 0, U32_MAX, data.x_enc)
    IN  value1

\* encoder_registers.rs 231-238: impl From<u32> for EncConst
EncConst_from_u32(data) ==
    [ enc_const_frac |-> Trunc(read_from_bit(data, 0, Bits(\hFFFF)), 16),
      enc_const_int |-> Trunc(read_from_bit(data, 16, Bits(\hFFFF)), 16) ]

\* encoder_registers.rs 240-247: impl From<EncConst> for u32
u32_from_EncConst(data) ==
    LET value0 == Bits(0)
        value1 == write_from_bit(value0, 0, Bits(\hFFFF), data.enc_const_frac)
        value2 == write_from_bit(value1, 16, Bits(\hFFFF), SignExt(data.enc_const_int, 16))
    IN  value2

\* encoder_registers.rs 300-306: impl From<u32> for EncStatus
EncStatus_from_u32(data) ==
    [ enc_status |-> read_bool_from_bit(data, 0) ]

\* encoder_registers.rs 308-314: impl From<EncStatus> for u32
u32_from_EncStatus(data) ==
    LET value0 == Bits(0)
        value1 == write_bool_to_bit(value0, 0, data.enc_status)
    IN  value1

\* encoder_registers.rs 365-371: impl From<u32> for EncLatch
EncLatch_from_u32(data) ==
    [ enc_latch |-> read_from_bit(data, 0, U32_MAX) ]

\* encoder_registers.rs 373-379: impl From<EncLatch> for u32
u32_from_EncLatch(data) ==
    LET value0 == Bits(0)
        value1 == write_from_bit(value0, 0, U32_MAX, data.enc_latch)
    IN  value1

\* general_configuration_register.rs 74-91: impl From<u32> for GConf
GConf_from_u32(data) ==
    [ single_diver |-> read_bool_from_bit(data, 0),
      stepdir1_enable |-> read_bool_from_bit(data, 1),
      stepdir2_enable |-> read_bool_from_bit(data, 2),
      poscmp_enable |-> read_bool_from_bit(data, 3),
      enc1_refsel |-> read_bool_from_bit(data, 4),
      enc2_enable |-> read_bool_from_bit(data, 5),
      enc2_refsel |-> read_bool_from_bit(data, 6),
      test_mode |-> read_bool_from_bit(data, 7),
      shaft1 |-> read_bool_from_bit(data, 8),
      shaft2 |-> read_bool_from_bit(data, 9),
      lock_gconf |-> read_bool_from_bit(data, 10),
      dc_sync |-> read_bool_from_bit(data, 11) ]

\* general_configuration_register.rs 93-110: impl From<GConf> for u32
u32_from_GConf(data) ==
    LET value0 == Bits(0)
        value1 == write_bool_to_bit(value0, 0, data.single_diver)
        value2 == write_bool_to_bit(value1, 1, data.stepdir1_enable)
        value3 == write_bool_to_bit(value2, 2, data.stepdir2_enable)
        value4 == write_bool_to_bit(value3, 3, data.poscmp_enable)
        value5 == write_bool_to_bit(value4, 4, data.enc1_refsel)
        value6 == write_bool_to_bit(value5, 5, data.enc2_enable)
        value7 == write_bool_to_bit(value6, 6, data.enc2_refsel)
        value8 == write_bool_to_bit(value7, 7, data.test_mode)
        value9 == write_bool_to_bit(value8, 8, data.shaft1)
        value10 == write_bool_to_bit(value9, 9, data.shaft2)
        value11 == write_bool_to_bit(value10, 10, data.lock_gconf)
        value12 == write_bool_to_bit(value11, 11, data.dc_sync)
    IN  value12

\* general_configuration_register.rs 167-176: impl From<u32> for GStat
GStat_from_u32(data) ==
    [ reset |-> read_bool_from_bit(data, 0),
      drv_err1 |-> read_bool_from_bit(data, 1),
      drv_err2 |-> read_bool_from_bit(data, 2),
      uv_cp |-> read_bool_from_bit(data, 3) ]

\* general_configuration_register.rs 177-186: impl From<GStat> for u32
u32_from_GStat(data) ==
    LET value0 == Bits(0)
        value1 == write_bool_to_bit(value0, 0, data.reset)
        value2 == write_bool_to_bit(value1, 1, data.drv_err1)
        value3 == write_bool_to_bit(value2, 2, data.drv_err2)
        value4 == write_bool_to_bit(value3, 3, data.uv_cp)
    IN  value4

\* general_configuration_register.rs 237-243: impl From<u32> for IfCnt
IfCnt_from_u32(data) ==
    [ if_cnt |-> Trunc(read_from_bit(data, 0, Bits(\hFF)), 8) ]

\* general_configuration_register.rs 244-250: impl From<IfCnt> for u32
u32_from_IfCnt(data) ==
    LET value0 == Bits(0)
        value1 == write_from_bit(value0, 0, Bits(\hFF), data.if_cnt)
    IN  value1

\* general_configuration_register.rs 312-319: impl From<u32> for SlaveConf
SlaveConf_from_u32(data) ==
    [ slave_addr |-> Trunc(read_from_bit(data, 0, Bits(\hFF)), 8),
      send_delay |-> Trunc(read_from_bit(data, 8, Bits(\hF)), 8) ]

\* general_configuration_register.rs 321-328: impl From<SlaveConf> for u32
u32_from_SlaveConf(data) ==
    LET value0 == Bits(0)
        value1 == write_from_bit(value0, 0, Bits(\hFF), data.slave_addr)
        value2 == write_from_bit(value1, 8, Bits(\hF), data.send_delay)
    IN  value2

\* general_configuration_register.rs 396-411: impl From<u32> for Input
Input_from_u32(data) ==
    [ io0 |-> read_bool_from_bit(data, 0),
      io1 |-> read_bool_from_bit(data, 1),
      io2 |-> read_bool_from_bit(data, 2),
      io3 |-> read_bool_from_bit(data, 3),
      iop |-> read_bool_from_bit(data, 4),
      ion |-> read_bool_from_bit(data, 5),
      next_addr |-> read_bool_from_bit(data, 6),
      drv_enn |-> read_bool_from_bit(data, 7),
      sw_comp |-> read_bool_from_bit(data, 8),
      version |-> Trunc(read_from_bit(data, 24, Bits(\hFF)), 8) ]

\* general_configuration_register.rs 413-428: impl From<Input> for u32
u32_from_Input(data) ==
    LET value0 == Bits(0)
        value1 == write_bool_to_bit(value0, 0, data.io0)
        value2 == write_bool_to_bit(value1, 1, data.io1)
        value3 == write_bool_to_bit(value2, 2, data.io2)
        value4 == write_bool_to_bit(value3, 3, data.io3)
        value5 == write_bool_to_bit(value4, 4, data.iop)
        value6 == write_bool_to_bit(value5, 5, data.ion)
        value7 == write_bool_to_bit(value6, 6, data.next_addr)
        value8 == write_bool_to_bit(value7, 7, data.drv_enn)
        value9 == write_bool_to_bit(value8, 8, data.sw_comp)
        value10 == write_from_bit(value9, 24, Bits(\hFF), data.version)
    IN  value10

\* general_configuration_register.rs 485-496: impl From<u32> for Output
Output_from_u32(data) ==
    [ io0 |-> read_bool_from_bit(data, 0),
      io1 |-> read_bool_from_bit(data, 1),
      io2 |-> read_bool_from_bit(data, 2),
      io_ddr0 |-> read_bool_from_bit(data, 8),
      io_ddr1 |-> read_bool_from_bit(data, 9),
      io_ddr2 |-> read_bool_from_bit(data, 10) ]

\* general_configuration_register.rs 498-509: impl From<Output> for u32
u32_from_Output(data) ==
    LET value0 == Bits(0)
        value1 == write_bool_to_bit(value0, 0, data.io0)
        value2 == write_bool_to_bit(value1, 1, data.io1)
        value3 == write_bool_to_bit(value2, 2, data.io2)
        value4 == write_bool_to_bit(value3, 8, data.io_ddr0)
        value5 == write_bool_to_bit(value4, 9, data.io_ddr1)
        value6 == write_bool_to_bit(value5, 10, data.io_ddr2)
    IN  value6

\* general_configuration_register.rs 564-570: impl From<u32> for XCompare
XCompare_from_u32(data) ==
    [ x_compare |-> read_from_bit(data, 0, U32_MAX) ]

\* general_configuration_register.rs 572-578: impl From<XCompare> for u32
u32_from_XCompare(data) ==
    LET value0 == Bits(0)
        value1 == write_from_bit(value0, 0, U32_MAX, data.x_compare)
    IN  value1

\* microstep_table_register.rs 28-34: impl From<u32> for MsLut0
MsLut0_from_u32(data) ==
    [ ms_lut0 |-> read_from_bit(data, 0, U32_MAX) ]

\* microstep_table_register.rs 36-42: impl From<MsLut0> for u32
u32_from_MsLut0(data) ==
    LET value0 == Bits(0)
        value1 == write_from_bit(value0, 0, U32_MAX, data.ms_lut0)
    IN  value1

\* microstep_table_register.rs 89-95: impl From<u32> for MsLut1
MsLut1_from_u32(data) ==
    [ ms_lut1 |-> read_from_bit(data, 0, U32_MAX) ]

\* microstep_table_register.rs 97-103: impl From<MsLut1> for u32
u32_from_MsLut1(data) ==
    LET value0 == Bits(0)
        value1 == write_from_bit(value0, 0, U32_MAX, data.ms_lut1)
    IN  value1

\* microstep_table_register.rs 149-155: impl From<u32> for MsLut2
MsLut2_from_u32(data) ==
    [ ms_lut2 |-> read_from_bit(data, 0, U32_MAX) ]

\* microstep_table_register.rs 157-163: impl From<MsLut2> for u32
u32_from_MsLut2(data) ==
    LET value0 == Bits(0)
        value1 == write_from_bit(value0, 0, U32_MAX, data.ms_lut2)
    IN  value1

\* microstep_table_register.rs 209-215: impl From<u32> for MsLut3
MsLut3_from_u32(data) ==
    [ ms_lut3 |-> read_from_bit(data, 0, U32_MAX) ]

\* microstep_table_register.rs 217-223: impl From<MsLut3> for u32
u32_from_MsLut3(data) ==
    LET value0 == Bits(0)
        value1 == write_from_bit(value0, 0, U32_MAX, data.ms_lut3)
    IN  value1

\* microstep_table_register.rs 269-275: impl From<u32> for MsLut4
MsLut4_from_u32(data) ==
    [ ms_lut4 |-> read_from_bit(data, 0, U32_MAX) ]

\* microstep_table_register.rs 277-283: impl From<MsLut4> for u32
u32_from_MsLut4(data) ==
    LET value0 == Bits(0)
        value1 == write_from_bit(value0, 0, U32_MAX, data.ms_lut4)
    IN  value1

\* microstep_table_register.rs 330-336: impl From<u32> for MsLut5
MsLut5_from_u32(data) ==
    [ ms_lut5 |-> read_from_bit(data, 0, U32_MAX) ]

\* microstep_table_register.rs 338-344: impl From<MsLut5> for u32
u32_from_MsLut5(data) ==
    LET value0 == Bits(0)
        value1 == write_from_bit(value0, 0, U32_MAX, data.ms_lut5)
    IN  value1

\* microstep_table_register.rs 391-397: impl From<u32> for MsLut6
MsLut6_from_u32(data) ==
    [ ms_lut6 |-> read_from_bit(data, 0, U32_MAX) ]

\* microstep_table_register.rs 399-405: impl From<MsLut6> for u32
u32_from_MsLut6(data) ==
    LET value0 == Bits(0)
        value1 == write_from_bit(value0, 0, U32_MAX, data.ms_lut6)
    IN  value1

\* microstep_table_register.rs 452-458: impl From<u32> for MsLut7
MsLut7_from_u32(data) ==
    [ ms_lut7 |-> read_from_bit(data, 0, U32_MAX) ]

\* microstep_table_register.rs 460-466: impl From<MsLut7> for u32
u32_from_MsLut7(data) ==
    LET value0 == Bits(0)
        value1 == write_from_bit(value0, 0, U32_MAX, data.ms_lut7)
    IN  value1

\* microstep_table_register.rs 539-551: impl From<u32> for MsLutSel
MsLutSel_from_u32(data) ==
    [ w0 |-> Trunc(read_from_bit(data, 0, Bits(\h3)), 8),
      w1 |-> Trunc(read_from_bit(data, 2, Bits(\h3)), 8),
      w2 |-> Trunc(read_from_bit(data, 4, Bits(\h3)), 8),
      w3 |-> Trunc(read_from_bit(data, 6, Bits(\h3)), 8),
      x1 |-> Trunc(read_from_bit(data, 8, Bits(\hFF)), 8),
      x2 |-> Trunc(read_from_bit(data, 16, Bits(\hFF)), 8),
      x3 |-> Trunc(read_from_bit(data, 24, Bits(\hFF)), 8) ]

\* microstep_table_register.rs 553-565: impl From<MsLutSel> for u32
u32_from_MsLutSel(data) ==
    LET value0 == Bits(0)
        value1 == write_from_bit(value0, 0, Bits(\h3), data.w0)
        value2 == write_from_bit(value1, 2, Bits(\h3), data.w1)
        value3 == write_from_bit(value2, 4, Bits(\h3), data.w2)
        value4 == write_from_bit(value3, 6, Bits(\h3), data.w3)
        value5 == write_from_bit(value4, 8, Bits(\hFF), data.x1)
        value6 == write_from_bit(value5, 16, Bits(\hFF), data.x2)
        value7 == write_from_bit(value6, 24, Bits(\hFF), data.x3)
    IN  value7

\* microstep_table_register.rs 619-626: impl From<u32> for MsLutStart
MsLutStart_from_u32(data) ==
    [ start_sin |-> Trunc(read_from_bit(data, 0, Bits(\hFF)), 8),
      start_sin90 |-> Trunc(read_from_bit(data, 8, Bits(\hFF)), 8) ]

\* microstep_table_register.rs 628-635: impl From<MsLutStart> for u32
u32_from_MsLutStart(data) ==
    LET value0 == Bits(0)
        value1 == write_from_bit(value0, 0, Bits(\hFF), data.start_sin)
        value2 == write_from_bit(value1, 8, Bits(\hFF), data.start_sin90)
    IN  value2

\* motor_driver_register.rs 33-39: impl From<u32> for MsCnt
MsCnt_from_u32(data) ==
    [ ms_cnt |-> Trunc(read_from_bit(data, 0, Bits(\h3FF)), 16) ]

\* motor_driver_register.rs 41-47: impl From<MsCnt> for u32
u32_from_MsCnt(data) ==
    LET value0 == Bits(0)
        value1 == write_from_bit(value0, 0, Bits(\h3FF), data.ms_cnt)
    IN  value1

\* motor_driver_register.rs 101-108: impl From<u32> for MsCurAct
MsCurAct_from_u32(data) ==
    [ cur_a |-> Trunc(convert_to_signed_n(read_from_bit(data, 0, Bits(\h1FF)), 9), 16),
      cur_b |-> Trunc(convert_to_signed_n(read_from_bit(data, 16, Bits(\h1FF)), 9), 16) ]

\* motor_driver_register.rs 110-127: impl From<MsCurAct> for u32
u32_from_MsCurAct(data) ==
    LET value0 == Bits(0)
        value1 == write_from_bit(value0, 0, Bits(\h1FF), convert_from_signed_n(SignExt(data.cur_a, 16), 9))
        value2 == write_from_bit(value1, 16, Bits(\h1FF), convert_from_signed_n(SignExt(data.cur_b, 16), 9))
    IN  value2

\* motor_driver_register.rs 285-305: impl From<u32> for ChopConf
ChopConf_from_u32(data) ==
    [ toff |-> Trunc(read_from_bit(data, 0, Bits(\hF)), 8),
      hstrt |-> Trunc(read_from_bit(data, 4, Bits(\h7)), 8),
      hend |-> Trunc(read_from_bit(data, 7, Bits(\hF)), 8),
      fd3 |-> read_bool_from_bit(data, 11),
      disfdcc |-> read_bool_from_bit(data, 12),
      rndtf |-> read_bool_from_bit(data, 13),
      chm |-> read_bool_from_bit(data, 14),
      tbl |-> Trunc(read_from_bit(data, 15, Bits(\h3)), 8),
      vsense |-> read_bool_from_bit(data, 17),
      vhighfs |-> read_bool_from_bit(data, 18),
      vhighchm |-> read_bool_from_bit(data, 19),
      mres |-> Trunc(read_from_bit(data, 24, Bits(\hF)), 8),
      intpol16 |-> read_bool_from_bit(data, 28),
      dedge |-> read_bool_from_bit(data, 29),
      diss2g |-> read_bool_from_bit(data, 30) ]

\* motor_driver_register.rs 307-327: impl From<ChopConf> for u32
u32_from_ChopConf(data) ==
    LET value0 == Bits(0)
        value1 == write_from_bit(value0, 0, Bits(\hF), data.toff)
        value2 == write_from_bit(value1, 4, Bits(\h7), data.hstrt)
        value3 == write_from_bit(value2, 7, Bits(\hF), data.hend)
        value4 == write_bool_to_bit(value3, 11, data.fd3)
        value5 == write_bool_to_bit(value4, 12, data.disfdcc)
        value6 == write_bool_to_bit(value5, 13, data.rndtf)
        value7 == write_bool_to_bit(value6, 14, data.chm)
        value8 == write_from_bit(value7, 15, Bits(\h3), data.tbl)
        value9 == write_bool_to_bit(value8, 17, data.vsense)
        value10 == write_bool_to_bit(value9, 18, data.vhighfs)
        value11 == write_bool_to_bit(value10, 19, data.vhighchm)
        value12 == write_from_bit(value11, 24, Bits(\hF), data.mres)
        value13 == write_bool_to_bit(value12, 28, data.intpol16)
        value14 == write_bool_to_bit(value13, 29, data.dedge)
        value15 == write_bool_to_bit(value14, 30, data.diss2g)
    IN  value15

\* A faulty From<u32> for CoolConf: sgt read as sign and magnitude.
CoolConf_from_u32_sign_magnitude(data) ==
    LET sgt == Trunc(read_from_bit(data, 16, Bits(\h7F)), 8) IN
    [ semin |-> Trunc(read_from_bit(data, 0, Bits(\hF)), 8),
      seup |-> Trunc(read_from_bit(data, 5, Bits(\h3)), 8),
      semax |-> Trunc(read_from_bit(data, 8, Bits(\hF)), 8),
      sedn |-> Trunc(read_from_bit(data, 13, Bits(\h3)), 8),
      seimin |-> read_bool_from_bit(data, 15),
      sgt |-> IF (Shr(sgt, 6) \cap Bits(1)) = Bits(1)
               THEN Neg(sgt \cap Bits(\h3F), 8)
               ELSE sgt,
      sfilt |-> read_bool_from_bit(data, 24) ]

\* motor_driver_register.rs 424-441: impl From<u32> for CoolConf
CoolConf_from_u32(data) ==
    LET sgt == Trunc(read_from_bit(data, 16, Bits(\h7F)), 8) IN
    [ semin |-> Trunc(read_from_bit(data, 0, Bits(\hF)), 8),
      seup |-> Trunc(read_from_bit(data, 5, Bits(\h3)), 8),
      semax |-> Trunc(read_from_bit(data, 8, Bits(\hF)), 8),
      sedn |-> Trunc(read_from_bit(data, 13, Bits(\h3)), 8),
      seimin |-> read_bool_from_bit(data, 15),
      sgt |-> IF (Shr(sgt, 6) \cap Bits(1)) = Bits(1)
               THEN Neg(Inc(Not(sgt, 8) \cap Bits(\h3F), 8), 8)
               ELSE sgt,
      sfilt |-> read_bool_from_bit(data, 24) ]

\* motor_driver_register.rs 443-460: impl From<CoolConf> for u32
u32_from_CoolConf(data) ==
    LET corrected_sgt ==
            IF 7 \in data.sgt
            THEN (Not(Neg(Inc(data.sgt, 8), 8), 8) \cap Bits(\h3F)) \cup Shl(Bits(1), 6, 8)
            ELSE data.sgt
        value0 == Bits(0)
        value1 == write_from_bit(value0, 0, Bits(\hF), data.semin)
        value2 == write_from_bit(value1, 5, Bits(\h3), data.seup)
        value3 == write_from_bit(value2, 8, Bits(\hF), data.semax)
        value4 == write_from_bit(value3, 13, Bits(\h3), data.sedn)
        value5 == write_bool_to_bit(value4, 15, data.seimin)
        value6 == write_from_bit(value5, 16, Bits(\h7F), corrected_sgt)
        value7 == write_bool_to_bit(value6, 24, data.sfilt)
    IN  value7

\* motor_driver_register.rs 525-532: impl From<u32> for DcCtrl
DcCtrl_from_u32(data) ==
    [ dc_time |-> Trunc(read_from_bit(data, 0, Bits(\hFF)), 8),
      dc_sg |-> Trunc(read_from_bit(data, 8, Bits(\hFF)), 8) ]

\* motor_driver_register.rs 534-541: impl From<DcCtrl> for u32
u32_from_DcCtrl(data) ==
    LET value0 == Bits(0)
        value1 == write_from_bit(value0, 0, Bits(\hFF), data.dc_time)
        value2 == write_from_bit(value1, 8, Bits(\hFF), data.dc_sg)
    IN  value2

\* motor_driver_register.rs 652-668: impl From<u32> for DrvStatus
DrvStatus_from_u32(data) ==
    [ sg_result |-> Trunc(read_from_bit(data, 0, Bits(\h3FF)), 16),
      fsactive |-> read_bool_from_bit(data, 15),
      cs_actual |-> Trunc(read_from_bit(data, 16, Bits(\h1F)), 8),
      stall_guard |-> read_bool_from_bit(data, 24),
      ot |-> read_bool_from_bit(data, 25),
      otpw |-> read_bool_from_bit(data, 26),
      s2ga |-> read_bool_from_bit(data, 27),
      s2gb |-> read_bool_from_bit(data, 28),
      ola |-> read_bool_from_bit(data, 29),
      olb |-> read_bool_from_bit(data, 30),
      stst |-> read_bool_from_bit(data, 31) ]

\* motor_driver_register.rs 670-686: impl From<DrvStatus> for u32
u32_from_DrvStatus(data) ==
    LET value0 == Bits(0)
        value1 == write_from_bit(value0, 0, Bits(\h3FF), data.sg_result)
        value2 == write_bool_to_bit(value1, 15, data.fsactive)
        value3 == write_from_bit(value2, 16, Bits(\h1F), data.cs_actual)
        value4 == write_bool_to_bit(value3, 24, data.stall_guard)
        value5 == write_bool_to_bit(value4, 25, data.ot)
        value6 == write_bool_to_bit(value5, 26, data.otpw)
        value7 == write_bool_to_bit(value6, 27, data.s2ga)
        value8 == write_bool_to_bit(value7, 28, data.s2gb)
        value9 == write_bool_to_bit(value8, 29, data.ola)
        value10 == write_bool_to_bit(value9, 30, data.olb)
        value11 == write_bool_to_bit(value10, 31, data.stst)
    IN  value11

\* ramp_generator_driver_feature_control_register.rs 41-49: impl From<u32> for IHoldIRun
IHoldIRun_from_u32(data) ==
    [ i_hold |-> Trunc(read_from_bit(data, 0, Bits(\h1F)), 8),
      i_run |-> Trunc(read_from_bit(data, 8, Bits(\h1F)), 8),
      i_hold_delay |-> Trunc(read_from_bit(data, 16, Bits(\hF)), 8) ]

\* ramp_generator_driver_feature_control_register.rs 51-59: impl From<IHoldIRun> for u32
u32_from_IHoldIRun(data) ==
    LET value0 == Bits(0)
        value1 == write_from_bit(value0, 0, Bits(\h1F), data.i_hold)
        value2 == write_from_bit(value1, 8, Bits(\h1F), data.i_run)
        value3 == write_from_bit(value2, 16, Bits(\hF), data.i_hold_delay)
    IN  value3

\* ramp_generator_driver_feature_control_register.rs 129-135: impl From<u32> for VCoolThrs
VCoolThrs_from_u32(data) ==
    [ v_cool_thrs |-> read_from_bit(data, 0, Bits(\h7FFFFF)) ]

\* ramp_generator_driver_feature_control_register.rs 137-143: impl From<VCoolThrs> for u32
u32_from_VCoolThrs(data) ==
    LET value0 == Bits(0)
        value1 == write_from_bit(value0, 0, Bits(\h7FFFFF), data.v_cool_thrs)
    IN  value1

\* ramp_generator_driver_feature_control_register.rs 205-211: impl From<u32> for VHigh
VHigh_from_u32(data) ==
    [ v_high |-> read_from_bit(data, 0, Bits(\h7FFFFF)) ]

\* ramp_generator_driver_feature_control_register.rs 213-219: impl From<VHigh> for u32
u32_from_VHigh(data) ==
    LET value0 == Bits(0)
        value1 == write_from_bit(value0, 0, Bits(\h7FFFFF), data.v_high)
    IN  value1

\* ramp_generator_driver_feature_control_register.rs 284-290: impl From<u32> for VDcMin
VDcMin_from_u32(data) ==
    [ v_dc_min |-> read_from_bit(data, 0, Bits(\h7FFFFF)) ]

\* ramp_generator_driver_feature_control_register.rs 292-298: impl From<VDcMin> for u32
u32_from_VDcMin(data) ==
    LET value0 == Bits(0)
        value1 == write_from_bit(value0, 0, Bits(\h7FFFFF), data.v_dc_min)
    IN  value1

\* ramp_generator_driver_feature_control_register.rs 410-427: impl From<u32> for SwMode
SwMode_from_u32(data) ==
    [ stop_l_enable |-> read_bool_from_bit(data, 0),
      stop_r_enable |-> read_bool_from_bit(data, 1),
      pol_stop_l |-> read_bool_from_bit(data, 2),
      pol_stop_r |-> read_bool_from_bit(data, 3),
      swap_lr |-> read_bool_from_bit(data, 4),
      latch_l_active |-> read_bool_from_bit(data, 5),
      latch_l_inactive |-> read_bool_from_bit(data, 6),
      latch_r_active |-> read_bool_from_bit(data, 7),
      latch_r_inactive |-> read_bool_from_bit(data, 8),
      en_latch_encoder |-> read_bool_from_bit(data, 9),
      sg_stop |-> read_bool_from_bit(data, 10),
      en_softstop |-> read_bool_from_bit(data, 11) ]

\* ramp_generator_driver_feature_control_register.rs 429-446: impl From<SwMode> for u32
u32_from_SwMode(data) ==
    LET value0 == Bits(0)
        value1 == write_bool_to_bit(value0, 0, data.stop_l_enable)
        value2 == write_bool_to_bit(value1, 1, data.stop_r_enable)
        value3 == write_bool_to_bit(value2, 2, data.pol_stop_l)
        value4 == write_bool_to_bit(value3, 3, data.pol_stop_r)
        value5 == write_bool_to_bit(value4, 4, data.swap_lr)
        value6 == write_bool_to_bit(value5, 5, data.latch_l_active)
        value7 == write_bool_to_bit(value6, 6, data.latch_l_inactive)
        value8 == write_bool_to_bit(value7, 7, data.latch_r_active)
        value9 == write_bool_to_bit(value8, 8, data.latch_r_inactive)
        value10 == write_bool_to_bit(value9, 9, data.en_latch_encoder)
        value11 == write_bool_to_bit(value10, 10, data.sg_stop)
        value12 == write_bool_to_bit(value11, 11, data.en_softstop)
    IN  value12

\* ramp_generator_driver_feature_control_register.rs 576-595: impl From<u32> for RampStat
RampStat_from_u32(data) ==
    [ status_stop_l |-> read_bool_from_bit(data, 0),
      status_stop_r |-> read_bool_from_bit(data, 1),
      status_latch_l |-> read_bool_from_bit(data, 2),
      status_latch_r |-> read_bool_from_bit(data, 3),
      event_stop_l |-> read_bool_from_bit(data, 4),
      event_stop_r |-> read_bool_from_bit(data, 5),
      event_stop_sg |-> read_bool_from_bit(data, 6),
      event_pos_reached |-> read_bool_from_bit(data, 7),
      velocity_reached |-> read_bool_from_bit(data, 8),
      position_reached |-> read_bool_from_bit(data, 9),
      vzero |-> read_bool_from_bit(data, 10),
      t_zerowait_active |-> read_bool_from_bit(data, 11),
      second_move |-> read_bool_from_bit(data, 12),
      status_sg |-> read_bool_from_bit(data, 13) ]

\* ramp_generator_driver_feature_control_register.rs 597-616: impl From<RampStat> for u32
u32_from_RampStat(data) ==
    LET value0 == Bits(0)
        value1 == write_bool_to_bit(value0, 0, data.status_stop_l)
        value2 == write_bool_to_bit(value1, 1, data.status_stop_r)
        value3 == write_bool_to_bit(value2, 2, data.status_latch_l)
        value4 == write_bool_to_bit(value3, 3, data.status_latch_r)
        value5 == write_bool_to_bit(value4, 4, data.event_stop_l)
        value6 == write_bool_to_bit(value5, 5, data.event_stop_r)
        value7 == write_bool_to_bit(value6, 6, data.event_stop_sg)
        value8 == write_bool_to_bit(value7, 7, data.event_pos_reached)
        value9 == write_bool_to_bit(value8, 8, data.velocity_reached)
        value10 == write_bool_to_bit(value9, 9, data.position_reached)
        value11 == write_bool_to_bit(value10, 10, data.vzero)
        value12 == write_bool_to_bit(value11, 11, data.t_zerowait_active)
        value13 == write_bool_to_bit(value12, 12, data.second_move)
        value14 == write_bool_to_bit(value13, 13, data.status_sg)
    IN  value14

\* ramp_generator_driver_feature_control_register.rs 676-682: impl From<u32> for XLatch
XLatch_from_u32(data) ==
    [ x_latch |-> read_from_bit(data, 0, U32_MAX) ]

\* ramp_generator_driver_feature_control_register.rs 684-690: impl From<XLatch> for u32
u32_from_XLatch(data) ==
    LET value0 == Bits(0)
        value1 == write_from_bit(value0, 0, U32_MAX, data.x_latch)
    IN  value1

\* ramp_generator_register.rs 33-39: impl From<u32> for RampMode
RampMode_from_u32(data) ==
    [ ramp_mode |-> Trunc(read_from_bit(data, 0, Bits(\h3)), 8) ]

\* ramp_generator_register.rs 41-47: impl From<RampMode> for u32
u32_from_RampMode(data) ==
    LET value0 == Bits(0)
        value1 == write_from_bit(value0, 0, Bits(\h3), data.ramp_mode)
    IN  value1

\* ramp_generator_register.rs 102-108: impl From<u32> for XActual
XActual_from_u32(data) ==
    [ x_actual |-> read_from_bit(data, 0, U32_MAX) ]

\* ramp_generator_register.rs 110-116: impl From<XActual> for u32
u32_from_XActual(data) ==
    LET value0 == Bits(0)
        value1 == write_from_bit(value0, 0, U32_MAX, data.x_actual)
    IN  value1

\* ramp_generator_register.rs 170-176: impl From<u32> for VActual
VActual_from_u32(data) ==
    [ v_actual |-> convert_to_signed_n(read_from_bit(data, 0, Bits(\hFFFFFF)), 24) ]

\* ramp_generator_register.rs 178-189: impl From<VActual> for u32
u32_from_VActual(data) ==
    LET value0 == Bits(0)
        value1 == write_from_bit(value0, 0, Bits(\hFFFFFF), convert_from_signed_n(data.v_actual, 24))
    IN  value1

\* ramp_generator_register.rs 243-249: impl From<u32> for VStart
VStart_from_u32(data) ==
    [ v_start |-> read_from_bit(data, 0, Bits(\h3FFFF)) ]

\* ramp_generator_register.rs 251-257: impl From<VStart> for u32
u32_from_VStart(data) ==
    LET value0 == Bits(0)
        value1 == write_from_bit(value0, 0, Bits(\h3FFFF), data.v_start)
    IN  value1

\* ramp_generator_register.rs 309-315: impl From<u32> for A1
A1_from_u32(data) ==
    [ a1 |-> Trunc(read_from_bit(data, 0, Bits(\hFFFF)), 16) ]

\* ramp_generator_register.rs 317-323: impl From<A1> for u32
u32_from_A1(data) ==
    LET value0 == Bits(0)
        value1 == write_from_bit(value0, 0, Bits(\hFFFF), data.a1)
    IN  value1

\* ramp_generator_register.rs 377-383: impl From<u32> for V1
V1_from_u32(data) ==
    [ v1 |-> read_from_bit(data, 0, Bits(\hFFFFF)) ]

\* ramp_generator_register.rs 385-391: impl From<V1> for u32
u32_from_V1(data) ==
    LET value0 == Bits(0)
        value1 == write_from_bit(value0, 0, Bits(\hFFFFF), data.v1)
    IN  value1

\* ramp_generator_register.rs 445-451: impl From<u32> for AMax
AMax_from_u32(data) ==
    [ a_max |-> Trunc(read_from_bit(data, 0, Bits(\hFFFF)), 16) ]

\* ramp_generator_register.rs 453-459: impl From<AMax> for u32
u32_from_AMax(data) ==
    LET value0 == Bits(0)
        value1 == write_from_bit(value0, 0, Bits(\hFFFF), data.a_max)
    IN  value1

\* ramp_generator_register.rs 513-519: impl From<u32> for VMax
VMax_from_u32(data) ==
    [ v_max |-> read_from_bit(data, 0, Bits(\h7FFFFF)) ]

\* ramp_generator_register.rs 521-527: impl From<VMax> for u32
u32_from_VMax(data) ==
    LET value0 == Bits(0)
        value1 == write_from_bit(value0, 0, Bits(\h7FFFFF), data.v_max)
    IN  value1

\* ramp_generator_register.rs 579-585: impl From<u32> for DMax
DMax_from_u32(data) ==
    [ d_max |-> Trunc(read_from_bit(data, 0, Bits(\hFFFF)), 16) ]

\* ramp_generator_register.rs 587-593: impl From<DMax> for u32
u32_from_DMax(data) ==
    LET value0 == Bits(0)
        value1 == write_from_bit(value0, 0, Bits(\hFFFF), data.d_max)
    IN  value1

\* ramp_generator_register.rs 646-652: impl From<u32> for D1
D1_from_u32(data) ==
    [ d1 |-> Trunc(read_from_bit(data, 0, Bits(\hFFFF)), 16) ]

\* ramp_generator_register.rs 654-660: impl From<D1> for u32
u32_from_D1(data) ==
    LET value0 == Bits(0)
        value1 == write_from_bit(value0, 0, Bits(\hFFFF), data.d1)
    IN  value1

\* ramp_generator_register.rs 716-722: impl From<u32> for VStop
VStop_from_u32(data) ==
    [ v_stop |-> read_from_bit(data, 0, Bits(\h3FFFF)) ]

\* ramp_generator_register.rs 724-730: impl From<VStop> for u32
u32_from_VStop(data) ==
    LET value0 == Bits(0)
        value1 == write_from_bit(value0, 0, Bits(\h3FFFF), data.v_stop)
    IN  value1

\* ramp_generator_register.rs 785-791: impl From<u32> for TZeroWait
TZeroWait_from_u32(data) ==
    [ t_zero_wait |-> Trunc(read_from_bit(data, 0, Bits(\hFFFF)), 16) ]

\* ramp_generator_register.rs 793-799: impl From<TZeroWait> for u32
u32_from_TZeroWait(data) ==
    LET value0 == Bits(0)
        value1 == write_from_bit(value0, 0, Bits(\hFFFF), data.t_zero_wait)
    IN  value1

\* ramp_generator_register.rs 860-866: impl From<u32> for XTarget
XTarget_from_u32(data) ==
    [ x_target |-> read_from_bit(data, 0, U32_MAX) ]

\* ramp_generator_register.rs 868-874: impl From<XTarget> for u32
u32_from_XTarget(data) ==
    LET value0 == Bits(0)
        value1 == write_from_bit(value0, 0, U32_MAX, data.x_target)
    IN  value1

\* voltage_pwm_mode_stealth_chop.rs 66-76: impl From<u32> for PwmConf
PwmConf_from_u32(data) ==
    [ pwm_ampl |-> Trunc(read_from_bit(data, 0, Bits(\hFF)), 8),
      pwm_grad |-> Trunc(read_from_bit(data, 8, Bits(\hFF)), 8),
      pwm_freq |-> Trunc(read_from_bit(data, 16, Bits(\h3)), 8),
      pwm_autoscale |-> read_bool_from_bit(data, 18),
      freewheel |-> Trunc(read_from_bit(data, 20, Bits(\h3)), 8) ]

\* voltage_pwm_mode_stealth_chop.rs 78-88: impl From<PwmConf> for u32
u32_from_PwmConf(data) ==
    LET value0 == Bits(0)
        value1 == write_from_bit(value0, 0, Bits(\hFF), data.pwm_ampl)
        value2 == write_from_bit(value1, 8, Bits(\hFF), data.pwm_grad)
        value3 == write_from_bit(value2, 16, Bits(\h3), data.pwm_freq)
        value4 == write_bool_to_bit(value3, 18, data.pwm_autoscale)
        value5 == write_from_bit(value4, 20, Bits(\h3), data.freewheel)
    IN  value5

\* voltage_pwm_mode_stealth_chop.rs 146-152: impl From<u32> for PwmStatus
PwmStatus_from_u32(data) ==
    [ pwm_status |-> Trunc(read_from_bit(data, 0, Bits(\hFF)), 8) ]

\* voltage_pwm_mode_stealth_chop.rs 154-160: impl From<PwmStatus> for u32
u32_from_PwmStatus(data) ==
    LET value0 == Bits(0)
        value1 == write_from_bit(value0, 0, Bits(\hFF), data.pwm_status)
    IN  value1
\* encoder_registers.rs: the structs (fields, and the span each field is read from) and
\* impl Register (addr(), one address per channel).
encoder_registers ==
    [ EncMode |->
        [ addr |-> <<\h38, \h58>>,
          fields |-> <<
            [name |-> "pol_a", kind |-> "bool", off |-> 0, width |-> 1, ty |-> 1],
            [name |-> "pol_b", kind |-> "bool", off |-> 1, width |-> 1, ty |-> 1],
            [name |-> "pol_n", kind |-> "bool", off |-> 2, width |-> 1, ty |-> 1],
            [name |-> "ignore_ab", kind |-> "bool", off |-> 3, width |-> 1, ty |-> 1],
            [name |-> "clr_cont", kind |-> "bool", off |-> 4, width |-> 1, ty |-> 1],
            [name |-> "clr_once", kind |-> "bool", off |-> 5, width |-> 1, ty |-> 1],
            [name |-> "pos_edge", kind |-> "bool", off |-> 6, width |-> 1, ty |-> 1],
            [name |-> "neg_edge", kind |-> "bool", off |-> 7, width |-> 1, ty |-> 1],
            [name |-> "clr_enc_x", kind |-> "bool", off |-> 8, width |-> 1, ty |-> 1],
            [name |-> "latch_x_act", kind |-> "bool", off |-> 9, width |-> 1, ty |-> 1],
            [name |-> "enc_sel_decimal", kind |-> "bool", off |-> 10, width |-> 1, ty |-> 1],
            [name |-> "latch_now", kind |-> "bool", off |-> 11, width |-> 1, ty |-> 1] >> ],
      XEnc |->
        [ addr |-> <<\h39, \h59>>,
          fields |-> <<
            [name |-> "x_enc", kind |-> "signed", off |-> 0, width |-> 32, ty |-> 32] >> ],
      EncConst |->
        [ addr |-> <<\h3A, \h5A>>,
          fields |-> <<
            [name |-> "enc_const_frac", kind |-> "unsigned", off |-> 0, width |-> 16, ty |-> 16],
            [name |-> "enc_const_int", kind |-> "signed", off |-> 16, width |-> 16, ty |-> 16] >> ],
      EncStatus |->
        [ addr |-> <<\h3B, \h5B>>,
          fields |-> <<
            [name |-> "enc_status", kind |-> "bool", off |-> 0, width |-> 1, ty |-> 1] >> ],
      EncLatch |->
        [ addr |-> <<\h3C, \h5C>>,
          fields |-> <<
            [name |-> "enc_latch", kind |-> "signed", off |-> 0, width |-> 32, ty |-> 32] >> ] ]

\* general_configuration_register.rs: the structs (fields, and the span each field is read from) and
\* impl Register (addr(), one address per channel).
general_configuration_register ==
    [ GConf |->
        [ addr |-> <<\h00>>,
          fields |-> <<
            [name |-> "single_diver", kind |-> "bool", off |-> 0, width |-> 1, ty |-> 1],
            [name |-> "stepdir1_enable", kind |-> "bool", off |-> 1, width |-> 1, ty |-> 1],
            [name |-> "stepdir2_enable", kind |-> "bool", off |-> 2, width |-> 1, ty |-> 1],
            [name |-> "poscmp_enable", kind |-> "bool", off |-> 3, width |-> 1, ty |-> 1],
            [name |-> "enc1_refsel", kind |-> "bool", off |-> 4, width |-> 1, ty |-> 1],
            [name |-> "enc2_enable", kind |-> "bool", off |-> 5, width |-> 1, ty |-> 1],
            [name |-> "enc2_refsel", kind |-> "bool", off |-> 6, width |-> 1, ty |-> 1],
            [name |-> "test_mode", kind |-> "bool", off |-> 7, width |-> 1, ty |-> 1],
            [name |-> "shaft1", kind |-> "bool", off |-> 8, width |-> 1, ty |-> 1],
            [name |-> "shaft2", kind |-> "bool", off |-> 9, width |-> 1, ty |-> 1],
            [name |-> "lock_gconf", kind |-> "bool", off |-> 10, width |-> 1, ty |-> 1],
            [name |-> "dc_sync", kind |-> "bool", off |-> 11, width |-> 1, ty |-> 1] >> ],
      GStat |->
        [ addr |-> <<\h01>>,
          fields |-> <<
            [name |-> "reset", kind |-> "bool", off |-> 0, width |-> 1, ty |-> 1],
            [name |-> "drv_err1", kind |-> "bool", off |-> 1, width |-> 1, ty |-> 1],
            [name |-> "drv_err2", kind |-> "bool", off |-> 2, width |-> 1, ty |-> 1],
            [name |-> "uv_cp", kind |-> "bool", off |-> 3, width |-> 1, ty |-> 1] >> ],
      IfCnt |->
        [ addr |-> <<\h02>>,
          fields |-> <<
            [name |-> "if_cnt", kind |-> "unsigned", off |-> 0, width |-> 8, ty |-> 8] >> ],
      SlaveConf |->
        [ addr |-> <<\h03>>,
          fields |-> <<
            [name |-> "slave_addr", kind |-> "unsigned", off |-> 0, width |-> 8, ty |-> 8],
            [name |-> "send_delay", kind |-> "unsigned", off |-> 8, width |-> 4, ty |-> 8] >> ],
      Input |->
        [ addr |-> <<\h04>>,
          fields |-> <<
            [name |-> "io0", kind |-> "bool", off |-> 0, width |-> 1, ty |-> 1],
            [name |-> "io1", kind |-> "bool", off |-> 1, width |-> 1, ty |-> 1],
            [name |-> "io2", kind |-> "bool", off |-> 2, width |-> 1, ty |-> 1],
            [name |-> "io3", kind |-> "bool", off |-> 3, width |-> 1, ty |-> 1],
            [name |-> "iop", kind |-> "bool", off |-> 4, width |-> 1, ty |-> 1],
            [name |-> "ion", kind |-> "bool", off |-> 5, width |-> 1, ty |-> 1],
            [name |-> "next_addr", kind |-> "bool", off |-> 6, width |-> 1, ty |-> 1],
            [name |-> "drv_enn", kind |-> "bool", off |-> 7, width |-> 1, ty |-> 1],
            [name |-> "sw_comp", kind |-> "bool", off |-> 8, width |-> 1, ty |-> 1],
            [name |-> "version", kind |-> "unsigned", off |-> 24, width |-> 8, ty |-> 8] >> ],
      Output |->
        [ addr |-> <<\h04>>,
          fields |-> <<
            [name |-> "io0", kind |-> "bool", off |-> 0, width |-> 1, ty |-> 1],
            [name |-> "io1", kind |-> "bool", off |-> 1, width |-> 1, ty |-> 1],
            [name |-> "io2", kind |-> "bool", off |-> 2, width |-> 1, ty |-> 1],
            [name |-> "io_ddr0", kind |-> "bool", off |-> 8, width |-> 1, ty |-> 1],
            [name |-> "io_ddr1", kind |-> "bool", off |-> 9, width |-> 1, ty |-> 1],
            [name |-> "io_ddr2", kind |-> "bool", off |-> 10, width |-> 1, ty |-> 1] >> ],
      XCompare |->
        [ addr |-> <<\h05>>,
          fields |-> <<
            [name |-> "x_compare", kind |-> "unsigned", off |-> 0, width |-> 32, ty |-> 32] >> ] ]

\* microstep_table_register.rs: the structs (fields, and the span each field is read from) and
\* impl Register (addr(), one address per channel).
microstep_table_register ==
    [ MsLut0 |->
        [ addr |-> <<\h60>>,
          fields |-> <<
            [name |-> "ms_lut0", kind |-> "unsigned", off |-> 0, width |-> 32, ty |-> 32] >> ],
      MsLut1 |->
        [ addr |-> <<\h61>>,
          fields |-> <<
            [name |-> "ms_lut1", kind |-> "unsigned", off |-> 0, width |-> 32, ty |-> 32] >> ],
      MsLut2 |->
        [ addr |-> <<\h62>>,
          fields |-> <<
            [name |-> "ms_lut2", kind |-> "unsigned", off |-> 0, width |-> 32, ty |-> 32] >> ],
      MsLut3 |->
        [ addr |-> <<\h63>>,
          fields |-> <<
            [name |-> "ms_lut3", kind |-> "unsigned", off |-> 0, width |-> 32, ty |-> 32] >> ],
      MsLut4 |->
        [ addr |-> <<\h64>>,
          fields |-> <<
            [name |-> "ms_lut4", kind |-> "unsigned", off |-> 0, width |-> 32, ty |-> 32] >> ],
      MsLut5 |->
        [ addr |-> <<\h65>>,
          fields |-> <<
            [name |-> "ms_lut5", kind |-> "unsigned", off |-> 0, width |-> 32, ty |-> 32] >> ],
      MsLut6 |->
        [ addr |-> <<\h66>>,
          fields |-> <<
            [name |-> "ms_lut6", kind |-> "unsigned", off |-> 0, width |-> 32, ty |-> 32] >> ],
      MsLut7 |->
        [ addr |-> <<\h67>>,
          fields |-> <<
            [name |-> "ms_lut7", kind |-> "unsigned", off |-> 0, width |-> 32, ty |-> 32] >> ],
      MsLutSel |->
        [ addr |-> <<\h68>>,
          fields |-> <<
            [name |-> "w0", kind |-> "unsigned", off |-> 0, width |-> 2, ty |-> 8],
            [name |-> "w1", kind |-> "unsigned", off |-> 2, width |-> 2, ty |-> 8],
            [name |-> "w2", kind |-> "unsigned", off |-> 4, width |-> 2, ty |-> 8],
            [name |-> "w3", kind |-> "unsigned", off |-> 6, width |-> 2, ty |-> 8],
            [name |-> "x1", kind |-> "unsigned", off |-> 8, width |-> 8, ty |-> 8],
            [name |-> "x2", kind |-> "unsigned", off |-> 16, width |-> 8, ty |-> 8],
            [name |-> "x3", kind |-> "unsigned", off |-> 24, width |-> 8, ty |-> 8] >> ],
      MsLutStart |->
        [ addr |-> <<\h69>>,
          fields |-> <<
            [name |-> "start_sin", kind |-> "unsigned", off |-> 0, width |-> 8, ty |-> 8],
            [name |-> "start_sin90", kind |-> "unsigned", off |-> 8, width |-> 8, ty |-> 8] >> ] ]

\* motor_driver_register.rs: the structs (fields, and the span each field is read from) and
\* impl Register (addr(), one address per channel).
motor_driver_register ==
    [ MsCnt |->
        [ addr |-> <<\h6A, \h7A>>,
          fields |-> <<
            [name |-> "ms_cnt", kind |-> "unsigned", off |-> 0, width |-> 10, ty |-> 16] >> ],
      MsCurAct |->
        [ addr |-> <<\h6B, \h7B>>,
          fields |-> <<
            [name |-> "cur_a", kind |-> "signed", off |-> 0, width |-> 9, ty |-> 16],
            [name |-> "cur_b", kind |-> "signed", off |-> 16, width |-> 9, ty |-> 16] >> ],
      ChopConf |->
        [ addr |-> <<\h6C, \h7C>>,
          fields |-> <<
            [name |-> "toff", kind |-> "unsigned", off |-> 0, width |-> 4, ty |-> 8],
            [name |-> "hstrt", kind |-> "unsigned", off |-> 4, width |-> 3, ty |-> 8],
            [name |-> "hend", kind |-> "unsigned", off |-> 7, width |-> 4, ty |-> 8],
            [name |-> "fd3", kind |-> "bool", off |-> 11, width |-> 1, ty |-> 1],
            [name |-> "disfdcc", kind |-> "bool", off |-> 12, width |-> 1, ty |-> 1],
            [name |-> "rndtf", kind |-> "bool", off |-> 13, width |-> 1, ty |-> 1],
            [name |-> "chm", kind |-> "bool", off |-> 14, width |-> 1, ty |-> 1],
            [name |-> "tbl", kind |-> "unsigned", off |-> 15, width |-> 2, ty |-> 8],
            [name |-> "vsense", kind |-> "bool", off |-> 17, width |-> 1, ty |-> 1],
            [name |-> "vhighfs", kind |-> "bool", off |-> 18, width |-> 1, ty |-> 1],
            [name |-> "vhighchm", kind |-> "bool", off |-> 19, width |-> 1, ty |-> 1],
            [name |-> "mres", kind |-> "unsigned", off |-> 24, width |-> 4, ty |-> 8],
            [name |-> "intpol16", kind |-> "bool", off |-> 28, width |-> 1, ty |-> 1],
            [name |-> "dedge", kind |-> "bool", off |-> 29, width |-> 1, ty |-> 1],
            [name |-> "diss2g", kind |-> "bool", off |-> 30, width |-> 1, ty |-> 1] >> ],
      CoolConf |->
        [ addr |-> <<\h6D, \h7D>>,
          fields |-> <<
            [name |-> "semin", kind |-> "unsigned", off |-> 0, width |-> 4, ty |-> 8],
            [name |-> "seup", kind |-> "unsigned", off |-> 5, width |-> 2, ty |-> 8],
            [name |-> "semax", kind |-> "unsigned", off |-> 8, width |-> 4, ty |-> 8],
            [name |-> "sedn", kind |-> "unsigned", off |-> 13, width |-> 2, ty |-> 8],
            [name |-> "seimin", kind |-> "bool", off |-> 15, width |-> 1, ty |-> 1],
            [name |-> "sgt", kind |-> "signed", off |-> 16, width |-> 7, ty |-> 8],
            [name |-> "sfilt", kind |-> "bool", off |-> 24, width |-> 1, ty |-> 1] >> ],
      DcCtrl |->
        [ addr |-> <<\h6E, \h7E>>,
          fields |-> <<
            [name |-> "dc_time", kind |-> "unsigned", off |-> 0, width |-> 8, ty |-> 8],
            [name |-> "dc_sg", kind |-> "unsigned", off |-> 8, width |-> 8, ty |-> 8] >> ],
      DrvStatus |->
        [ addr |-> <<\h6F, \h7F>>,
          fields |-> <<
            [name |-> "sg_result", kind |-> "unsigned", off |-> 0, width |-> 10, ty |-> 16],
            [name |-> "fsactive", kind |-> "bool", off |-> 15, width |-> 1, ty |-> 1],
            [name |-> "cs_actual", kind |-> "unsigned", off |-> 16, width |-> 5, ty |-> 8],
            [name |-> "stall_guard", kind |-> "bool", off |-> 24, width |-> 1, ty |-> 1],
            [name |-> "ot", kind |-> "bool", off |-> 25, width |-> 1, ty |-> 1],
            [name |-> "otpw", kind |-> "bool", off |-> 26, width |-> 1, ty |-> 1],
            [name |-> "s2ga", kind |-> "bool", off |-> 27, width |-> 1, ty |-> 1],
            [name |-> "s2gb", kind |-> "bool", off |-> 28, width |-> 1, ty |-> 1],
            [name |-> "ola", kind |-> "bool", off |-> 29, width |-> 1, ty |-> 1],
            [name |-> "olb", kind |-> "bool", off |-> 30, width |-> 1, ty |-> 1],
            [name |-> "stst", kind |-> "bool", off |-> 31, width |-> 1, ty |-> 1] >> ] ]

\* ramp_generator_driver_feature_control_register.rs: the structs (fields, and the span each field is read from) and
\* impl Register (addr(), one address per channel).
ramp_generator_driver_feature_control_register ==
    [ IHoldIRun |->
        [ addr |-> <<\h30, \h50>>,
          fields |-> <<
            [name |-> "i_hold", kind |-> "unsigned", off |-> 0, width |-> 5, ty |-> 8],
            [name |-> "i_run", kind |-> "unsigned", off |-> 8, width |-> 5, ty |-> 8],
            [name |-> "i_hold_delay", kind |-> "unsigned", off |-> 16, width |-> 4, ty |-> 8] >> ],
      VCoolThrs |->
        [ addr |-> <<\h31, \h51>>,
          fields |-> <<
            [name |-> "v_cool_thrs", kind |-> "unsigned", off |-> 0, width |-> 23, ty |-> 32] >> ],
      VHigh |->
        [ addr |-> <<\h32, \h52>>,
          fields |-> <<
            [name |-> "v_high", kind |-> "unsigned", off |-> 0, width |-> 23, ty |-> 32] >> ],
      VDcMin |->
        [ addr |-> <<\h33, \h53>>,
          fields |-> <<
            [name |-> "v_dc_min", kind |-> "unsigned", off |-> 0, width |-> 23, ty |-> 32] >> ],
      SwMode |->
        [ addr |-> <<\h34, \h54>>,
          fields |-> <<
            [name |-> "stop_l_enable", kind |-> "bool", off |-> 0, width |-> 1, ty |-> 1],
            [name |-> "stop_r_enable", kind |-> "bool", off |-> 1, width |-> 1, ty |-> 1],
            [name |-> "pol_stop_l", kind |-> "bool", off |-> 2, width |-> 1, ty |-> 1],
            [name |-> "pol_stop_r", kind |-> "bool", off |-> 3, width |-> 1, ty |-> 1],
            [name |-> "swap_lr", kind |-> "bool", off |-> 4, width |-> 1, ty |-> 1],
            [name |-> "latch_l_active", kind |-> "bool", off |-> 5, width |-> 1, ty |-> 1],
            [name |-> "latch_l_inactive", kind |-> "bool", off |-> 6, width |-> 1, ty |-> 1],
            [name |-> "latch_r_active", kind |-> "bool", off |-> 7, width |-> 1, ty |-> 1],
            [name |-> "latch_r_inactive", kind |-> "bool", off |-> 8, width |-> 1, ty |-> 1],
            [name |-> "en_latch_encoder", kind |-> "bool", off |-> 9, width |-> 1, ty |-> 1],
            [name |-> "sg_stop", kind |-> "bool", off |-> 10, width |-> 1, ty |-> 1],
            [name |-> "en_softstop", kind |-> "bool", off |-> 11, width |-> 1, ty |-> 1] >> ],
      RampStat |->
        [ addr |-> <<\h35, \h55>>,
          fields |-> <<
            [name |-> "status_stop_l", kind |-> "bool", off |-> 0, width |-> 1, ty |-> 1],
            [name |-> "status_stop_r", kind |-> "bool", off |-> 1, width |-> 1, ty |-> 1],
            [name |-> "status_latch_l", kind |-> "bool", off |-> 2, width |-> 1, ty |-> 1],
            [name |-> "status_latch_r", kind |-> "bool", off |-> 3, width |-> 1, ty |-> 1],
            [name |-> "event_stop_l", kind |-> "bool", off |-> 4, width |-> 1, ty |-> 1],
            [name |-> "event_stop_r", kind |-> "bool", off |-> 5, width |-> 1, ty |-> 1],
            [name |-> "event_stop_sg", kind |-> "bool", off |-> 6, width |-> 1, ty |-> 1],
            [name |-> "event_pos_reached", kind |-> "bool", off |-> 7, width |-> 1, ty |-> 1],
            [name |-> "velocity_reached", kind |-> "bool", off |-> 8, width |-> 1, ty |-> 1],
            [name |-> "position_reached", kind |-> "bool", off |-> 9, width |-> 1, ty |-> 1],
            [name |-> "vzero", kind |-> "bool", off |-> 10, width |-> 1, ty |-> 1],
            [name |-> "t_zerowait_active", kind |-> "bool", off |-> 11, width |-> 1, ty |-> 1],
            [name |-> "second_move", kind |-> "bool", off |-> 12, width |-> 1, ty |-> 1],
            [name |-> "status_sg", kind |-> "bool", off |-> 13, width |-> 1, ty |-> 1] >> ],
      XLatch |->
        [ addr |-> <<\h36, \h56>>,
          fields |-> <<
            [name |-> "x_latch", kind |-> "unsigned", off |-> 0, width |-> 32, ty |-> 32] >> ] ]

\* ramp_generator_register.rs: the structs (fields, and the span each field is read from) and
\* impl Register (addr(), one address per channel).
ramp_generator_register ==
    [ RampMode |->
        [ addr |-> <<\h20, \h40>>,
          fields |-> <<
            [name |-> "ramp_mode", kind |-> "unsigned", off |-> 0, width |-> 2, ty |-> 8] >> ],
      XActual |->
        [ addr |-> <<\h21, \h41>>,
          fields |-> <<
            [name |-> "x_actual", kind |-> "signed", off |-> 0, width |-> 32, ty |-> 32] >> ],
      VActual |->
        [ addr |-> <<\h22, \h42>>,
          fields |-> <<
            [name |-> "v_actual", kind |-> "signed", off |-> 0, width |-> 24, ty |-> 32] >> ],
      VStart |->
        [ addr |-> <<\h23, \h43>>,
          fields |-> <<
            [name |-> "v_start", kind |-> "unsigned", off |-> 0, width |-> 18, ty |-> 32] >> ],
      A1 |->
        [ addr |-> <<\h24, \h44>>,
          fields |-> <<
            [name |-> "a1", kind |-> "unsigned", off |-> 0, width |-> 16, ty |-> 16] >> ],
      V1 |->
        [ addr |-> <<\h25, \h45>>,
          fields |-> <<
            [name |-> "v1", kind |-> "unsigned", off |-> 0, width |-> 20, ty |-> 32] >> ],
      AMax |->
        [ addr |-> <<\h26, \h46>>,
          fields |-> <<
            [name |-> "a_max", kind |-> "unsigned", off |-> 0, width |-> 16, ty |-> 16] >> ],
      VMax |->
        [ addr |-> <<\h27, \h47>>,
          fields |-> <<
            [name |-> "v_max", kind |-> "unsigned", off |-> 0, width |-> 23, ty |-> 32] >> ],
      DMax |->
        [ addr |-> <<\h28, \h48>>,
          fields |-> <<
            [name |-> "d_max", kind |-> "unsigned", off |-> 0, width |-> 16, ty |-> 16] >> ],
      D1 |->
        [ addr |-> <<\h2A, \h4A>>,
          fields |-> <<
            [name |-> "d1", kind |-> "unsigned", off |-> 0, width |-> 16, ty |-> 16] >> ],
      VStop |->
        [ addr |-> <<\h2B, \h4B>>,
          fields |-> <<
            [name |-> "v_stop", kind |-> "unsigned", off |-> 0, width |-> 18, ty |-> 32] >> ],
      TZeroWait |->
        [ addr |-> <<\h2C, \h4C>>,
          fields |-> <<
            [name |-> "t_zero_wait", kind |-> "unsigned", off |-> 0, width |-> 16, ty |-> 16] >> ],
      XTarget |->
        [ addr |-> <<\h2D, \h4D>>,
          fields |-> <<
            [name |-> "x_target", kind |-> "signed", off |-> 0, width |-> 32, ty |-> 32] >> ] ]

\* voltage_pwm_mode_stealth_chop.rs: the structs (fields, and the span each field is read from) and
\* impl Register (addr(), one address per channel).
voltage_pwm_mode_stealth_chop ==
    [ PwmConf |->
        [ addr |-> <<\h10, \h18>>,
          fields |-> <<
            [name |-> "pwm_ampl", kind |-> "unsigned", off |-> 0, width |-> 8, ty |-> 8],
            [name |-> "pwm_grad", kind |-> "unsigned", off |-> 8, width |-> 8, ty |-> 8],
            [name |-> "pwm_freq", kind |-> "unsigned", off |-> 16, width |-> 2, ty |-> 8],
            [name |-> "pwm_autoscale", kind |-> "bool", off |-> 18, width |-> 1, ty |-> 1],
            [name |-> "freewheel", kind |-> "unsigned", off |-> 20, width |-> 2, ty |-> 8] >> ],
      PwmStatus |->
        [ addr |-> <<\h11, \h19>>,
          fields |-> <<
            [name |-> "pwm_status", kind |-> "unsigned", off |-> 0, width |-> 8, ty |-> 8] >> ] ]

Catalogue ==
    encoder_registers @@
    general_configuration_register @@
    microstep_table_register @@
    motor_driver_register @@
    ramp_generator_driver_feature_control_register @@
    ramp_generator_register @@
    voltage_pwm_mode_stealth_chop

RegisterTypes == DOMAIN Catalogue

\* R::from(data): static dispatch on the register type.
Register_from_u32(R, data) ==
    CASE R = "EncMode" -> EncMode_from_u32(data)
      [] R = "XEnc" -> XEnc_from_u32(data)
      [] R = "EncConst" -> EncConst_from_u32(data)
      [] R = "EncStatus" -> EncStatus_from_u32(data)
      [] R = "EncLatch" -> EncLatch_from_u32(data)
      [] R = "GConf" -> GConf_from_u32(data)
      [] R = "GStat" -> GStat_from_u32(data)
      [] R = "IfCnt" -> IfCnt_from_u32(data)
      [] R = "SlaveConf" -> SlaveConf_from_u32(data)
      [] R = "Input" -> Input_from_u32(data)
      [] R = "Output" -> Output_from_u32(data)
      [] R = "XCompare" -> XCompare_from_u32(data)
      [] R = "MsLut0" -> MsLut0_from_u32(data)
      [] R = "MsLut1" -> MsLut1_from_u32(data)
      [] R = "MsLut2" -> MsLut2_from_u32(data)
      [] R = "MsLut3" -> MsLut3_from_u32(data)
      [] R = "MsLut4" -> MsLut4_from_u32(data)
      [] R = "MsLut5" -> MsLut5_from_u32(data)
      [] R = "MsLut6" -> MsLut6_from_u32(data)
      [] R = "MsLut7" -> MsLut7_from_u32(data)
      [] R = "MsLutSel" -> MsLutSel_from_u32(data)
      [] R = "MsLutStart" -> MsLutStart_from_u32(data)
      [] R = "MsCnt" -> MsCnt_from_u32(data)
      [] R = "MsCurAct" -> MsCurAct_from_u32(data)
      [] R = "ChopConf" -> ChopConf_from_u32(data)
      [] R = "CoolConf" -> CoolConf_from_u32(data)
      [] R = "DcCtrl" -> DcCtrl_from_u32(data)
      [] R = "DrvStatus" -> DrvStatus_from_u32(data)
      [] R = "IHoldIRun" -> IHoldIRun_from_u32(data)
      [] R = "VCoolThrs" -> VCoolThrs_from_u32(data)
      [] R = "VHigh" -> VHigh_from_u32(data)
      [] R = "VDcMin" -> VDcMin_from_u32(data)
      [] R = "SwMode" -> SwMode_from_u32(data)
      [] R = "RampStat" -> RampStat_from_u32(data)
      [] R = "XLatch" -> XLatch_from_u32(data)
      [] R = "RampMode" -> RampMode_from_u32(data)
      [] R = "XActual" -> XActual_from_u32(data)
      [] R = "VActual" -> VActual_from_u32(data)
      [] R = "VStart" -> VStart_from_u32(data)
      [] R = "A1" -> A1_from_u32(data)
      [] R = "V1" -> V1_from_u32(data)
      [] R = "AMax" -> AMax_from_u32(data)
      [] R = "VMax" -> VMax_from_u32(data)
      [] R = "DMax" -> DMax_from_u32(data)
      [] R = "D1" -> D1_from_u32(data)
      [] R = "VStop" -> VStop_from_u32(data)
      [] R = "TZeroWait" -> TZeroWait_from_u32(data)
      [] R = "XTarget" -> XTarget_from_u32(data)
      [] R = "PwmConf" -> PwmConf_from_u32(data)
      [] R = "PwmStatus" -> PwmStatus_from_u32(data)

\* u32::from(r): static dispatch on the register type.
u32_from_Register(R, data) ==
    CASE R = "EncMode" -> u32_from_EncMode(data)
      [] R = "XEnc" -> u32_from_XEnc(data)
      [] R = "EncConst" -> u32_from_EncConst(data)
      [] R = "EncStatus" -> u32_from_EncStatus(data)
      [] R = "EncLatch" -> u32_from_EncLatch(data)
      [] R = "GConf" -> u32_from_GConf(data)
      [] R = "GStat" -> u32_from_GStat(data)
      [] R = "IfCnt" -> u32_from_IfCnt(data)
      [] R = "SlaveConf" -> u32_from_SlaveConf(data)
      [] R = "Input" -> u32_from_Input(data)
      [] R = "Output" -> u32_from_Output(data)
      [] R = "XCompare" -> u32_from_XCompare(data)
      [] R = "MsLut0" -> u32_from_MsLut0(data)
      [] R = "MsLut1" -> u32_from_MsLut1(data)
      [] R = "MsLut2" -> u32_from_MsLut2(data)
      [] R = "MsLut3" -> u32_from_MsLut3(data)
      [] R = "MsLut4" -> u32_from_MsLut4(data)
      [] R = "MsLut5" -> u32_from_MsLut5(data)
      [] R = "MsLut6" -> u32_from_MsLut6(data)
      [] R = "MsLut7" -> u32_from_MsLut7(data)
      [] R = "MsLutSel" -> u32_from_MsLutSel(data)
      [] R = "MsLutStart" -> u32_from_MsLutStart(data)
      [] R = "MsCnt" -> u32_from_MsCnt(data)
      [] R = "MsCurAct" -> u32_from_MsCurAct(data)
      [] R = "ChopConf" -> u32_from_ChopConf(data)
      [] R = "CoolConf" -> u32_from_CoolConf(data)
      [] R = "DcCtrl" -> u32_from_DcCtrl(data)
      [] R = "DrvStatus" -> u32_from_DrvStatus(data)
      [] R = "IHoldIRun" -> u32_from_IHoldIRun(data)
      [] R = "VCoolThrs" -> u32_from_VCoolThrs(data)
      [] R = "VHigh" -> u32_from_VHigh(data)
      [] R = "VDcMin" -> u32_from_VDcMin(data)
      [] R = "SwMode" -> u32_from_SwMode(data)
      [] R = "RampStat" -> u32_from_RampStat(data)
      [] R = "XLatch" -> u32_from_XLatch(data)
      [] R = "RampMode" -> u32_from_RampMode(data)
      [] R = "XActual" -> u32_from_XActual(data)
      [] R = "VActual" -> u32_from_VActual(data)
      [] R = "VStart" -> u32_from_VStart(data)
      [] R = "A1" -> u32_from_A1(data)
      [] R = "V1" -> u32_from_V1(data)
      [] R = "AMax" -> u32_from_AMax(data)
      [] R = "VMax" -> u32_from_VMax(data)
      [] R = "DMax" -> u32_from_DMax(data)
      [] R = "D1" -> u32_from_D1(data)
      [] R = "VStop" -> u32_from_VStop(data)
      [] R = "TZeroWait" -> u32_from_TZeroWait(data)
      [] R = "XTarget" -> u32_from_XTarget(data)
      [] R = "PwmConf" -> u32_from_PwmConf(data)
      [] R = "PwmStatus" -> u32_from_PwmStatus(data)
\* ------------------------------------------------------------------------
\* Declared fields: spans and in-range values
\* ------------------------------------------------------------------------

Fields(R) == Catalogue[R].fields

FieldIndex(R) == 1..Len(Fields(R))

\* The span of a declared field: the bit positions off..off+width-1.
Span(f) == f.off..(f.off + f.width - 1)

\* M_R: the union of the spans of R's declared fields.
FieldMask(R) == UNION {Span(Fields(R)[i]) : i \in FieldIndex(R)}

\* The value of declared field f that lies within f's declared width and has
\* the bits of pattern p: a flag, an unsigned width-bit number, or a signed
\* width-bit number held (sign-extended) in f's integer type.
InRangeField(f, p) ==
    LET raw == Shr(p, f.off) \cap (0..(f.width - 1))
    IN  CASE f.kind = "bool" -> f.off \in p
          [] f.kind = "unsigned" -> raw
          [] f.kind = "signed" ->
                IF (f.width - 1) \in raw THEN raw \cup (f.width..(f.ty - 1)) ELSE raw

\* A value of register type R all of whose fields lie within their declared widths.
InRangeValue(R, p) ==
    [n \in {Fields(R)[i].name : i \in FieldIndex(R)} |->
        LET f == Fields(R)[CHOOSE i \in FieldIndex(R) : Fields(R)[i].name = n]
        IN  InRangeField(f, p)]

\* Whether value v of declared field f is a negative number: f's type is a
\* signed integer type (i8, i16, i32) and v has the sign bit of that type.
IsNegative(f, v) == f.kind = "signed" /\ (f.ty - 1) \in v

\* ------------------------------------------------------------------------
\* registers/mod.rs, status.rs, spi.rs
\* ------------------------------------------------------------------------

READ_FLAG == Bits(\h00)

WRITE_FLAG == Bits(\h80)

IC_VERSION == Bits(\h10)

\* A faulty addr(): the second channel is 0x20 above the first throughout.
addr_uniform_offset(R, ch) == Bits(Catalogue[R].addr[1] + 32 * ch)

\* A faulty addr(): the second channel's address is the first channel's.
addr_first_channel(R, ch) == Bits(Catalogue[R].addr[1])

\* R::addr() of register type R for channel ch (0 or 1; 0 for a register that
\* is not per channel).
addr(R, ch) == Bits(Catalogue[R].addr[ch + 1])

Channels(R) == 0..(Len(Catalogue[R].addr) - 1)

\* impl From<u8> for SpiStatus
SpiStatus_from_u8(data) ==
    [ reset_flag |-> read_bool_from_bit(data, 0),
      driver_error1 |-> read_bool_from_bit(data, 1),
      driver_error2 |-> read_bool_from_bit(data, 2),
      velocity_reached1 |-> read_bool_from_bit(data, 3),
      velocity_reached2 |-> read_bool_from_bit(data, 4),
      status_stop_l1 |-> read_bool_from_bit(data, 5),
      status_stop_l2 |-> read_bool_from_bit(data, 6) ]

\* SpiOk<u32>::from_buffer.  The array buffer[0..4] of the source is the
\* sequence buffer[1..5] here.
SpiOk_u32_from_buffer(buf) ==
    [ status |-> SpiStatus_from_u8(buf[1]),
      data |-> Shl(buf[2], 24, 32) \cup Shl(buf[3], 16, 32)
                   \cup Shl(buf[4], 8, 32) \cup buf[5] ]

\* SpiOk<()>::from_buffer
SpiOk_unit_from_buffer(buf) ==
    [ status |-> SpiStatus_from_u8(buf[1]),
      data |-> "()" ]

\* A faulty SpiOk::map: the status is not carried over.
SpiOk_map_status_lost(self, R) ==
    [ status |-> SpiStatus_from_u8(Bits(0)),
      data |-> Register_from_u32(R, self.data) ]

\* SpiOk::map, with f = |x| R::from(x)
SpiOk_map(self, R) ==
    [ status |-> self.status,
      data |-> Register_from_u32(R, self.data) ]

\* Result values: Ok(v), Err(e), and the absence of a result while a call runs.
Ok(v) == [tag |-> "Ok", ok |-> v]

Err(e) == [tag |-> "Err", err |-> e]

NoResult == [tag |-> "None"]

\* enum SpiError<SPI, CS> { SpiError(SPI), CSError(CS) }
SpiError_SpiError(e) == [variant |-> "SpiError", value |-> e]

SpiError_CSError(c) == [variant |-> "CSError", value |-> c]

\* enum InitError<SPI, CS> { SpiError(SpiError<SPI, CS>), VersionError(u8) }
InitError_SpiError(e) == [variant |-> "InitError::SpiError", value |-> e]

InitError_VersionError(v) == [variant |-> "VersionError", value |-> v]

\* ------------------------------------------------------------------------
\* lib.rs: the transaction engine and its environment (the SPI bus and the
\* chip-select pin)
\* ------------------------------------------------------------------------

\* The callers' arguments and the environment's answers are drawn from samples:
\* the first NumStatus status bytes, the first NumPayloads payload words, the
\* first NumAddrs raw addresses, the first NumRegs register types.
NumStatus == 2

NumPayloads == 2

NumAddrs == 2

NumRegs == 2

StatusSamples == <<Bits(\h55), Bits(\hAA), Bits(\h7F), Bits(\h00), Bits(\hFF), Bits(\h01)>>

PayloadSamples ==
    << Bits(\h10000000), Bits(\h01020304), U32_MAX, Bits(\h00000000),
       Bits(\h11F0E080), Bits(\h000100C5) >>

AddrSamples == <<Bits(\h6C), Bits(\h85), Bits(\h04), Bits(\h7F), Bits(\h00), Bits(\hFF)>>

RegSamples ==
    << "Input", "CoolConf", "XActual", "ChopConf", "MsCurAct", "EncConst", "GConf",
       "MsLutStart" >>

Upto(n, samples) == {samples[i] : i \in 1..(IF n < Len(samples) THEN n ELSE Len(samples))}

StatusBytes == Upto(NumStatus, StatusSamples)

Payloads == Upto(NumPayloads, PayloadSamples)

RawAddrs == Upto(NumAddrs, AddrSamples)

TypedRegs == Upto(NumRegs, RegSamples)

\* The four bytes of a word, most significant first.
WordBytes(w) ==
    << Trunc(Shr(w, 24), 8), Trunc(Shr(w, 16), 8), Trunc(Shr(w, 8), 8), Trunc(w, 8) >>

\* What the bus shifts back into the buffer during one exchange.
Responses == {<<s>> \o WordBytes(p) : s \in StatusBytes, p \in Payloads}

\* The error values of the transport (SPI::Error) and of the pin (CS::Error).
TransportErrors == {"Overrun", "ModeFault"}

PinErrors == {"PinFault", "PinBusy"}

NoOp == [fn |-> "none", reg |-> "GConf", ch |-> 0, addr |-> {}, data |-> {}, value |-> {}]

EngineIdle ==
    /\ driver = FALSE
    /\ buffer = <<{}, {}, {}, {}, {}>>
    /\ cs = "high"
    /\ pc = "idle"
    /\ op = NoOp
    /\ log = <<>>
    /\ result = NoResult


PinCall(name, res) ==
    [call |-> name, tx |-> <<>>, rx |-> <<>>, ok |-> res = "ok", err |-> res, sel |-> cs]

BusCall(tx, rx, res) ==
    [call |-> "transfer", tx |-> tx, rx |-> rx, ok |-> res = "ok", err |-> res, sel |-> cs]

\* read_register: self.read_raw(R::addr(), spi).map(|x| x.map(|x| R::from(x)))
read_register_map(R, raw) ==
    IF raw.tag = "Ok" THEN Ok(SpiOk_map(raw.ok, R)) ELSE raw

\* A faulty new: no version check.
new_unchecked(read) ==
    IF read.tag = "Err" THEN Err(InitError_SpiError(read.err)) ELSE Ok("Tmc5072")

\* new: `?` converts a SpiError by From<SpiError> for InitError; then the
\* version check.
new_check(read) ==
    IF read.tag = "Err" THEN Err(InitError_SpiError(read.err))
    ELSE LET version == read.ok.data.version
         IN  IF version # IC_VERSION THEN Err(InitError_VersionError(version))
             ELSE Ok("Tmc5072")

\* What the running call returns to its caller once read_raw / write_raw
\* returns raw: the callers of the raw operation on the stack finish with it.
Returned(raw) ==
    CASE op.fn = "read_raw" -> raw
      [] op.fn = "write_raw" -> raw
      [] op.fn = "write_register" -> raw
      [] op.fn = "read_register" -> read_register_map(op.reg, raw)
      [] op.fn = "new" -> new_check(read_register_map(op.reg, raw))

\* The running call returns.
Return(raw) ==
    /\ result' = Returned(raw)
    /\ driver' = IF op.fn = "new" THEN Returned(raw).tag = "Ok" ELSE driver
    /\ pc' = "idle"

\* A faulty first frame: bytes 1..4 are left as the buffer holds them.
read_raw_frame_stale(a) == [buffer EXCEPT ![1] = READ_FLAG \cup a]

\* self.buffer[0] = READ_FLAG | addr; self.buffer[1..4] = 0
read_raw_frame(a) == <<READ_FLAG \cup a, Bits(0), Bits(0), Bits(0), Bits(0)>>

\* A faulty second frame: byte 0 left as the first exchange echoed it.
read_raw_echo(buf, a) == buf

\* A faulty second frame: bytes 1..4 are zeroed again.
read_raw_rezero(buf, a) == << READ_FLAG \cup a, {}, {}, {}, {} >>

\* self.buffer[0] = READ_FLAG | addr   (before the second exchange)
read_raw_rearm(buf, a) == [buf EXCEPT ![1] = READ_FLAG \cup a]

\* A faulty write frame: the payload least significant byte first.
write_raw_frame_le(a, data) ==
    << WRITE_FLAG \cup a,
       Trunc(data, 8), Trunc(Shr(data, 8), 8), Trunc(Shr(data, 16), 8),
       Trunc(Shr(data, 24), 8) >>

\* self.buffer[0] = WRITE_FLAG | addr; self.buffer[1..4] = data, big-endian
write_raw_frame(a, data) ==
    << WRITE_FLAG \cup a,
       Trunc(Shr(data, 24), 8), Trunc(Shr(data, 16), 8), Trunc(Shr(data, 8), 8),
       Trunc(data, 8) >>

Begin(o, frame, first) ==
    /\ pc = "idle"
    /\ op' = o
    /\ buffer' = frame
    /\ log' = <<>>
    /\ result' = NoResult
    /\ pc' = first
    /\ UNCHANGED <<cs, cvars>>

\* Tmc5072::new: a fresh instance with a zeroed buffer reads Input.
New ==
    /\ Begin([NoOp EXCEPT !.fn = "new", !.reg = "Input", !.addr = addr("Input", 0)],
             read_raw_frame(addr("Input", 0)), "read_set_low_1")
    /\ driver' = FALSE

ReadRegister ==
    \E R \in TypedRegs : \E ch \in Channels(R) :
        /\ driver
        /\ Begin([NoOp EXCEPT !.fn = "read_register", !.reg = R, !.ch = ch,
                              !.addr = addr(R, ch)],
                 read_raw_frame(addr(R, ch)), "read_set_low_1")
        /\ UNCHANGED driver

WriteRegister ==
    \E R \in TypedRegs : \E ch \in Channels(R) : \E p \in Payloads :
        LET r == InRangeValue(R, p)
            data == u32_from_Register(R, r)
        IN  /\ driver
            /\ Begin([NoOp EXCEPT !.fn = "write_register", !.reg = R, !.ch = ch,
                                  !.addr = addr(R, ch), !.value = r, !.data = data],
                     write_raw_frame(addr(R, ch), data), "write_set_low")
            /\ UNCHANGED driver

ReadRaw ==
    \E a \in RawAddrs :
        /\ driver
        /\ Begin([NoOp EXCEPT !.fn = "read_raw", !.addr = a],
                 read_raw_frame(a), "read_set_low_1")
        /\ UNCHANGED driver

WriteRaw ==
    \E a \in RawAddrs : \E data \in Payloads :
        /\ driver
        /\ Begin([NoOp EXCEPT !.fn = "write_raw", !.addr = a, !.data = data],
                 write_raw_frame(a, data), "write_set_low")
        /\ UNCHANGED driver

\* The running call goes on to its next statement.
Goto(next, buf) ==
    /\ pc' = next
    /\ buffer' = buf
    /\ UNCHANGED <<driver, result>>

\* A faulty pin call: its failure is reported as a failure of the exchange.
PinStepAsBusFailure(name, level, then) ==
    /\ \/ /\ cs' = level
          /\ log' = Append(log, PinCall(name, "ok"))
          /\ then
       \/ \E c \in PinErrors :
          /\ cs' \in {cs, level}
          /\ log' = Append(log, PinCall(name, c))
          /\ Return(Err(SpiError_SpiError(c)))
          /\ UNCHANGED buffer
    /\ UNCHANGED <<op, cvars>>

\* self.cs.set_low().map_err(SpiError::CSError)?  /  self.cs.set_high()...?
\* then is what follows a successful call.  A failing pin call may or may not
\* have moved the line.
PinStep(name, level, then) ==
    /\ \/ /\ cs' = level
          /\ log' = Append(log, PinCall(name, "ok"))
          /\ then
       \/ \E c \in PinErrors :
          /\ cs' \in {cs, level}
          /\ log' = Append(log, PinCall(name, c))
          /\ Return(Err(SpiError_CSError(c)))
          /\ UNCHANGED buffer
    /\ UNCHANGED <<op, cvars>>

\* A faulty exchange: its failure is reported as a failure of the pin.
BusStepAsPinFailure(next) ==
    /\ \/ \E rx \in Responses :
          /\ log' = Append(log, BusCall(buffer, rx, "ok"))
          /\ Goto(next, rx)
       \/ \E e \in TransportErrors :
          /\ log' = Append(log, BusCall(buffer, <<>>, e))
          /\ Return(Err(SpiError_CSError(e)))
          /\ buffer' \in {buffer} \cup Responses
    /\ UNCHANGED <<op, cs, cvars>>

\* A faulty exchange: a failed exchange is made again.
BusStepRetrying(next) ==
    /\ \/ \E rx \in Responses :
          /\ log' = Append(log, BusCall(buffer, rx, "ok"))
          /\ Goto(next, rx)
       \/ \E e \in TransportErrors :
          /\ log' = Append(log, BusCall(buffer, <<>>, e))
          /\ Goto(pc, buffer)
    /\ UNCHANGED <<op, cs, cvars>>

\* A faulty exchange: its failure is ignored and the call goes on.
BusStepIgnoringFailure(next) ==
    /\ \/ \E rx \in Responses :
          /\ log' = Append(log, BusCall(buffer, rx, "ok"))
          /\ Goto(next, rx)
       \/ \E e \in TransportErrors :
          /\ log' = Append(log, BusCall(buffer, <<>>, e))
          /\ Goto(next, buffer)
    /\ UNCHANGED <<op, cs, cvars>>

\* spi.transfer(&mut self.buffer).map_err(SpiError::SpiError)?
\* The exchange is in place: the response replaces the frame in the buffer.  A
\* failing exchange may or may not have written the buffer.
BusStep(next) ==
    /\ \/ \E rx \in Responses :
          /\ log' = Append(log, BusCall(buffer, rx, "ok"))
          /\ Goto(next, rx)
       \/ \E e \in TransportErrors :
          /\ log' = Append(log, BusCall(buffer, <<>>, e))
          /\ Return(Err(SpiError_SpiError(e)))
          /\ buffer' \in {buffer} \cup Responses
    /\ UNCHANGED <<op, cs, cvars>>

\* lib.rs 190
ReadSetLow1 ==
    /\ pc = "read_set_low_1"
    /\ PinStep("set_low", "low", Goto("read_transfer_1", buffer))

\* lib.rs 192
ReadTransfer1 ==
    /\ pc = "read_transfer_1"
    /\ BusStep("read_set_high_1")

\* A faulty read: the line stays selected between the two exchanges.
ReadKeepSelected ==
    /\ pc = "read_set_high_1"
    /\ Goto("read_set_low_2", read_raw_rearm(buffer, op.addr))
    /\ UNCHANGED <<op, cs, log, cvars>>

\* lib.rs 193-195
ReadSetHigh1 ==
    /\ pc = "read_set_high_1"
    /\ PinStep("set_high", "high",
               Goto("read_set_low_2", read_raw_rearm(buffer, op.addr)))

\* lib.rs 196
ReadSetLow2 ==
    /\ pc = "read_set_low_2"
    /\ PinStep("set_low", "low", Goto("read_transfer_2", buffer))

\* A faulty second exchange: its response does not reach the buffer.
ReadTransfer2Lost ==
    /\ pc = "read_transfer_2"
    /\ \E rx \in Responses :
          /\ log' = Append(log, BusCall(buffer, rx, "ok"))
          /\ Goto("read_set_high_2", buffer)
    /\ UNCHANGED <<op, cs, cvars>>

\* lib.rs 198
ReadTransfer2 ==
    /\ pc = "read_transfer_2"
    /\ BusStep("read_set_high_2")

\* A faulty last step of read_raw: when set_high fails the response already
\* received is returned all the same.
ReadSetHigh2Partial ==
    /\ pc = "read_set_high_2"
    /\ \/ /\ cs' = "high"
          /\ log' = Append(log, PinCall("set_high", "ok"))
       \/ \E c \in PinErrors :
          /\ cs' \in {cs, "high"}
          /\ log' = Append(log, PinCall("set_high", c))
    /\ Return(Ok(SpiOk_u32_from_buffer(buffer)))
    /\ UNCHANGED <<buffer, op, cvars>>

\* lib.rs 199-200
ReadSetHigh2 ==
    /\ pc = "read_set_high_2"
    /\ PinStep("set_high", "high",
               Return(Ok(SpiOk_u32_from_buffer(buffer))) /\ UNCHANGED buffer)

\* lib.rs 214
WriteSetLow ==
    /\ pc = "write_set_low"
    /\ PinStep("set_low", "low", Goto("write_transfer", buffer))

\* lib.rs 216
WriteTransfer ==
    /\ pc = "write_transfer"
    /\ BusStep("write_set_high")

\* lib.rs 217-218
WriteSetHigh ==
    /\ pc = "write_set_high"
    /\ PinStep("set_high", "high",
               Return(Ok(SpiOk_unit_from_buffer(buffer))) /\ UNCHANGED buffer)

Next ==
    \/ New
    \/ ReadRegister
    \/ WriteRegister
    \/ ReadRaw
    \/ WriteRaw
    \/ ReadSetLow1
    \/ ReadTransfer1
    \/ ReadSetHigh1
    \/ ReadSetLow2
    \/ ReadTransfer2
    \/ ReadSetHigh2
    \/ WriteSetLow
    \/ WriteTransfer
    \/ WriteSetHigh

\* No caller of the codec is at work.
CodecIdle ==
    /\ cstep = 0
    /\ creg = "GConf"
    /\ cin = [kind |-> "word", word |-> {}]
    /\ cmid = {}
    /\ cout = {}

Init == EngineIdle /\ CodecIdle

Spec == Init /\ [][Next]_vars

\* ------------------------------------------------------------------------
\* Properties of the transaction engine
\* ------------------------------------------------------------------------

IsTransfer(c) == c.call = "transfer"

\* The exchanges the running (or last) call has made so far, in order.
Transfers == SelectSeq(log, IsTransfer)

\* The names of the calls the running (or last) call has made so far.
Calls == [i \in 1..Len(log) |-> log[i].call]

ReadFns == {"read_raw", "read_register", "new"}

WriteFns == {"write_raw", "write_register"}

\* The call has returned.
Finished == pc = "idle" /\ op.fn # "none"

\* The word whose four bytes, most significant first, are rx[2..5]: bit i of
\* the word is bit (i mod 8) of response byte 5 - (i div 8).
BigEndianWord(rx) == {i \in U32_MAX : (i % 8) \in rx[5 - (i \div 8)]}

\* What the calls in log make the raw operation return: the error of the call
\* that failed, or else the decoded last response.
RawOutcome ==
    LET last == log[Len(log)]
        rx == Transfers[Len(Transfers)].rx
    IN  IF ~last.ok
        THEN Err(IF last.call = "transfer" THEN SpiError_SpiError(last.err)
                 ELSE SpiError_CSError(last.err))
        ELSE IF op.fn \in ReadFns
             THEN Ok([status |-> SpiStatus_from_u8(rx[1]), data |-> BigEndianWord(rx)])
             ELSE Ok([status |-> SpiStatus_from_u8(rx[1]), data |-> "()"])

\* C1: a successful read_raw has made exactly two exchanges and returns the
\* status decoded from byte 0 and the payload decoded big-endian from bytes
\* 1..4 of the second response, on every call; a read never makes a third
\* exchange.
C1_ReadRawSecondResponse ==
    op.fn = "read_raw" =>
        /\ Len(Transfers) <= 2
        /\ (Finished /\ result.tag = "Ok") =>
              /\ Len(Transfers) = 2
              /\ result.ok.status = SpiStatus_from_u8(Transfers[2].rx[1])
              /\ result.ok.data = BigEndianWord(Transfers[2].rx)

\* C1 witness: a read_raw has returned Ok after two exchanges whose responses
\* differ in every byte.
C1_Witness ==
    /\ op.fn = "read_raw" /\ Finished /\ result.tag = "Ok"
    /\ Len(Transfers) = 2
    /\ \A i \in 1..5 : Transfers[1].rx[i] # Transfers[2].rx[i]

\* C2: the frame a read sends in its second exchange starts with the byte its
\* first frame started with, READ_FLAG | addr, whatever the first exchange
\* shifted back into byte 0.
C2_SecondFrameAddress ==
    (op.fn = "read_raw" /\ Len(Transfers) >= 1) =>
        /\ Transfers[1].tx[1] = READ_FLAG \cup op.addr
        /\ Len(Transfers) >= 2 => Transfers[2].tx[1] = Transfers[1].tx[1]

\* C2 witness: the second exchange of a read_raw has been made after a first
\* exchange that echoed another byte 0 than the one sent.
C2_Witness ==
    /\ op.fn = "read_raw"
    /\ Len(Transfers) = 2
    /\ Transfers[1].rx[1] # Transfers[1].tx[1]

\* C3: write_raw makes one exchange, of the frame [0x80 | addr, data >> 24 &
\* 0xFF, data >> 16 & 0xFF, data >> 8 & 0xFF, data & 0xFF], and on success
\* returns the status decoded from byte 0 of the response and nothing else.
C3_WriteRawFrame ==
    op.fn = "write_raw" =>
        /\ Len(Transfers) <= 1
        /\ Len(Transfers) = 1 =>
              Transfers[1].tx =
                  << Bits(\h80) \cup op.addr,
                     Shr(op.data, 24) \cap Bits(\hFF), Shr(op.data, 16) \cap Bits(\hFF),
                     Shr(op.data, 8) \cap Bits(\hFF), op.data \cap Bits(\hFF) >>
        /\ (Finished /\ result.tag = "Ok") =>
              /\ Len(Transfers) = 1
              /\ result.ok = [status |-> SpiStatus_from_u8(Transfers[1].rx[1]), data |-> "()"]

\* C3 witness: a write_raw of a word with four different bytes has returned
\* Ok after a response whose bytes 1..4 are not zero.
C3_Witness ==
    /\ op.fn = "write_raw" /\ Finished /\ result.tag = "Ok"
    /\ op.data = Bits(\h01020304)
    /\ Transfers[1].rx[2] # {}

\* C4: when no call fails, a read makes set_low, transfer, set_high, set_low,
\* transfer, set_high and a write makes set_low, transfer, set_high; the line
\* is high when the second set_low of a read is made; and every transfer is
\* made with the line low.
C4_CallOrder ==
    /\ \A i \in 1..Len(log) : log[i].call = "transfer" => log[i].sel = "low"
    /\ (Finished /\ \A i \in 1..Len(log) : log[i].ok) =>
          /\ cs = "high"
          /\ op.fn \in ReadFns =>
                /\ Calls = <<"set_low", "transfer", "set_high", "set_low", "transfer", "set_high">>
                /\ log[4].sel = "high"
          /\ op.fn \in WriteFns => Calls = <<"set_low", "transfer", "set_high">>

\* C4 witness: a read_raw has returned with none of its six calls failing.
C4_Witness ==
    /\ op.fn = "read_raw" /\ Finished
    /\ Len(log) = 6
    /\ \A i \in 1..Len(log) : log[i].ok

\* C5: a failing exchange of read_raw or write_raw is the last call the
\* operation makes (a failing first read exchange is the only exchange), and
\* the operation returns Err(SpiError::SpiError(e)) with the error e of that
\* exchange.
C5_TransferFailure ==
    op.fn \in {"read_raw", "write_raw"} =>
        \A i \in 1..Len(log) :
            (log[i].call = "transfer" /\ ~log[i].ok) =>
                /\ i = Len(log)
                /\ Finished
                /\ result = [tag |-> "Err", err |-> [variant |-> "SpiError", value |-> log[i].err]]
                /\ i = 2 => Len(Transfers) = 1

\* C5 witness: the first exchange of a read_raw has failed.
C5_Witness ==
    /\ op.fn = "read_raw"
    /\ Len(log) = 2
    /\ log[2].call = "transfer" /\ ~log[2].ok

\* C6: a failing set_low or set_high is the last call read_raw or write_raw
\* makes, and the operation returns Err(SpiError::CSError(c)) with the error c
\* of the pin, which is no SpiError::SpiError value.
C6_PinFailure ==
    op.fn \in {"read_raw", "write_raw"} =>
        \A i \in 1..Len(log) :
            (log[i].call \in {"set_low", "set_high"} /\ ~log[i].ok) =>
                /\ i = Len(log)
                /\ Finished
                /\ result = [tag |-> "Err", err |-> [variant |-> "CSError", value |-> log[i].err]]
                /\ result.err.variant # SpiError_SpiError(log[i].err).variant

\* C6 witness: the second set_low of a read_raw has failed.
C6_Witness ==
    /\ op.fn = "read_raw"
    /\ Len(log) = 4
    /\ log[4].call = "set_low" /\ ~log[4].ok

\* C7: read_register::<R> makes the exchanges of read_raw(R::addr()) and
\* returns its result with the payload replaced by R::from(payload);
\* write_register(r) makes the exchange of write_raw(R::addr(), u32::from(r))
\* and returns its result; neither makes another exchange.
C7_TypedIsRaw ==
    /\ (op.fn \in {"read_raw", "write_raw"} /\ Finished) => result = RawOutcome
    /\ op.fn = "read_register" =>
          /\ Len(Transfers) <= 2
          /\ \A i \in 1..Len(Transfers) :
                Transfers[i].tx[1] = READ_FLAG \cup addr(op.reg, op.ch)
          /\ Len(Transfers) >= 1 => \A j \in 2..5 : Transfers[1].tx[j] = {}
          /\ Finished =>
                result = IF RawOutcome.tag = "Ok"
                         THEN Ok([status |-> RawOutcome.ok.status,
                                  data |-> Register_from_u32(op.reg, RawOutcome.ok.data)])
                         ELSE RawOutcome
    /\ op.fn = "write_register" =>
          /\ Len(Transfers) <= 1
          /\ Len(Transfers) = 1 =>
                Transfers[1].tx = <<WRITE_FLAG \cup addr(op.reg, op.ch)>>
                                      \o WordBytes(u32_from_Register(op.reg, op.value))
          /\ Finished => result = RawOutcome

\* C7 witness: a read_register of the second channel's CoolConf has returned
\* Ok with a non-zero sgt.
C7_Witness ==
    /\ op.fn = "read_register" /\ op.reg = "CoolConf" /\ op.ch = 1
    /\ Finished /\ result.tag = "Ok"
    /\ result.ok.data.sgt # {}

\* C8: Tmc5072::new makes the exchanges of one read of address 0x04; it
\* returns a driver iff bits 31..24 of the payload read are 0x10, returns
\* InitError::VersionError with those bits otherwise, and returns
\* InitError::SpiError with the error of the read when the read fails.
C8_NewVersionCheck ==
    op.fn = "new" =>
        /\ Len(Transfers) <= 2
        /\ \A i \in 1..Len(Transfers) : Transfers[i].tx[1] = Bits(\h04)
        /\ Finished =>
              IF RawOutcome.tag = "Err"
              THEN /\ result = [tag |-> "Err",
                                err |-> [variant |-> "InitError::SpiError",
                                         value |-> RawOutcome.err]]
                   /\ ~driver
              ELSE LET v == Shr(RawOutcome.ok.data, 24)
                   IN  /\ Len(Transfers) = 2
                       /\ driver <=> v = Bits(\h10)
                       /\ driver <=> result.tag = "Ok"
                       /\ ~driver =>
                             result = [tag |-> "Err",
                                       err |-> [variant |-> "VersionError", value |-> v]]

\* C8 witness: new has read a payload whose bits 31..24 are 0x01 and has
\* returned VersionError(0x01).
C8_Witness ==
    /\ op.fn = "new" /\ Finished
    /\ result.tag = "Err"
    /\ result.err.variant = "VersionError"
    /\ result.err.value = Bits(\h01)

\* The statements of read_raw and write_raw that call the bus or the pin.
CallStep ==
    \/ ReadSetLow1 \/ ReadTransfer1 \/ ReadSetHigh1
    \/ ReadSetLow2 \/ ReadTransfer2 \/ ReadSetHigh2
    \/ WriteSetLow \/ WriteTransfer \/ WriteSetHigh

\* The number of calls a call standing at a statement has made.
CallsBefore ==
    [ read_set_low_1 |-> 0, read_transfer_1 |-> 1, read_set_high_1 |-> 2,
      read_set_low_2 |-> 3, read_transfer_2 |-> 4, read_set_high_2 |-> 5,
      write_set_low |-> 0, write_transfer |-> 1, write_set_high |-> 2 ]

\* C18: whatever the bus and the pin answer, read_raw and Tmc5072::new make
\* at most 2 exchanges and 4 pin calls and write_raw at most 1 and 2 (the
\* typed operations as their raw ones); a call that has not returned stands
\* at a statement that can be taken and has made the number of calls that
\* come before that statement, so it returns after at most 6 (3) calls; and
\* a failed exchange or pin call is the last call: nothing is made again.
C18_BoundedCalls ==
    LET transfers == Len(Transfers)
        pins == Len(log) - Len(Transfers)
    IN  /\ op.fn \in ReadFns => (transfers <= 2 /\ pins <= 4)
        /\ op.fn \in WriteFns => (transfers <= 1 /\ pins <= 2)
        /\ pc # "idle" =>
              /\ ENABLED CallStep
              /\ Len(log) = CallsBefore[pc]
              /\ \A i \in 1..Len(log) : log[i].ok
        /\ \A i \in 1..Len(log) : ~log[i].ok => (i = Len(log) /\ Finished)
        /\ Finished => result.tag \in {"Ok", "Err"}

\* C18 witness: Tmc5072::new has returned an error after its second exchange,
\* the fifth call, failed.
C18_Witness ==
    /\ op.fn = "new" /\ Finished
    /\ Len(log) = 5 /\ Len(Transfers) = 2
    /\ ~log[5].ok
    /\ result.tag = "Err"

\* C20: every exchange of read_raw or write_raw is bracketed by set_low and
\* set_high, also when the exchange fails: once the operation has returned,
\* every transfer it attempted is followed by a set_high call, and the line
\* is not left low unless a pin call failed.
C20_Bracketed ==
    (op.fn \in {"read_raw", "write_raw"} /\ Finished) =>
        /\ \A i \in 1..Len(log) :
              log[i].call = "transfer" =>
                  /\ i > 1 /\ log[i - 1].call = "set_low"
                  /\ \E j \in (i + 1)..Len(log) : log[j].call = "set_high"
        /\ (\A i \in 1..Len(log) : log[i].call # "transfer" => log[i].ok) => cs = "high"

\* C21: whatever earlier operations left in the buffer, the first frame
\* read_raw(addr) sends is [addr, 0, 0, 0, 0] and the frame write_raw(addr,
\* data) sends is made of addr and data alone.
C21_FreshFrame ==
    /\ (op.fn = "read_raw" /\ Len(Transfers) >= 1) =>
          Transfers[1].tx = <<op.addr, Bits(0), Bits(0), Bits(0), Bits(0)>>
    /\ (op.fn = "write_raw" /\ Len(Transfers) >= 1) =>
          Transfers[1].tx = <<Bits(\h80) \cup op.addr>> \o WordBytes(op.data)

\* C21 witness: a read_raw has sent its first frame on a driver whose
\* construction left the version word 0x10000000 in the buffer, and the
\* exchange has left the bytes 0x01, 0x02, 0x03, 0x04 there.
C21_Witness ==
    /\ driver
    /\ op.fn = "read_raw" /\ Len(Transfers) = 1
    /\ Transfers[1].ok
    /\ Transfers[1].tx[2] = Bits(0)
    /\ buffer[2] = Bits(\h01) /\ buffer[5] = Bits(\h04)

\* C22: for every 8-bit address passed to read_raw, and the address of every
\* register passed to read_register, both frames sent have bit 7 of byte 0
\* clear and bits 6..0 equal to the register address: a read never puts a
\* frame with the write flag on the bus.
C22_ReadFlagClear ==
    op.fn \in {"read_raw", "read_register"} =>
        \A i \in 1..Len(Transfers) :
            /\ 7 \notin Transfers[i].tx[1]
            /\ Transfers[i].tx[1] \cap (0..6) = op.addr \cap (0..6)

\* C29: when the last exchange of read_raw (its second) or of write_raw has
\* succeeded and the set_high that follows it fails, the operation returns
\* Err(SpiError::CSError(c)) with the error c of the pin, and the value
\* returned holds neither the status nor the payload received.
C29_NoPartialResult ==
    (/\ op.fn \in {"read_raw", "write_raw"}
     /\ Len(log) = (IF op.fn = "read_raw" THEN 6 ELSE 3)
     /\ log[Len(log)].call = "set_high" /\ ~log[Len(log)].ok
     /\ log[Len(log) - 1].call = "transfer" /\ log[Len(log) - 1].ok) =>
        /\ Finished
        /\ result.tag = "Err"
        /\ DOMAIN result = {"tag", "err"}
        /\ result.err = SpiError_CSError(log[Len(log)].err)
        /\ result.err.value \in PinErrors

\* C29 witness: the set_high after the second exchange of a read_raw has
\* failed, the exchange having returned a response with a non-zero payload.
C29_Witness ==
    /\ op.fn = "read_raw"
    /\ Len(log) = 6
    /\ log[6].call = "set_high" /\ ~log[6].ok
    /\ log[5].call = "transfer" /\ log[5].ok
    /\ \E j \in 2..5 : log[5].rx[j] # {}
    /\ result.tag = "Err"

\* C30: in read_raw (and the typed reads made of it) the second frame has the
\* address in byte 0 and in bytes 1..4 the bytes 1..4 received in the first
\* exchange, which the transport has left in the buffer, not zeros.
C30_SecondFrameCarriesResponse ==
    (op.fn \in ReadFns /\ Len(Transfers) = 2) =>
        /\ Transfers[2].tx[1] = READ_FLAG \cup op.addr
        /\ \A j \in 2..5 : Transfers[2].tx[j] = Transfers[1].rx[j]

\* C30 witness: the second exchange of a read_raw has been made after a first
\* one whose response had a non-zero payload byte.
C30_Witness ==
    /\ op.fn = "read_raw"
    /\ Len(Transfers) = 2
    /\ \E j \in 2..5 : Transfers[1].rx[j] # {}
    /\ \E j \in 2..5 : Transfers[2].tx[j] # {}
\* ------------------------------------------------------------------------
\* status.rs, registers/*.rs, bits.rs: the conversions not used by the engine
\* ------------------------------------------------------------------------

\* A faulty From<SpiStatus> for u8: status_stop_l2 is written to bit 7.
u8_from_SpiStatus_bit7(data) ==
    LET value0 == Bits(0)
        value1 == write_bool_to_bit(value0, 0, data.reset_flag)
        value2 == write_bool_to_bit(value1, 1, data.driver_error1)
        value3 == write_bool_to_bit(value2, 2, data.driver_error2)
        value4 == write_bool_to_bit(value3, 3, data.velocity_reached1)
        value5 == write_bool_to_bit(value4, 4, data.velocity_reached2)
        value6 == write_bool_to_bit(value5, 5, data.status_stop_l1)
        value7 == write_bool_to_bit(value6, 7, data.status_stop_l2)
    IN  value7

\* impl From<SpiStatus> for u8
u8_from_SpiStatus(data) ==
    LET value0 == Bits(0)
        value1 == write_bool_to_bit(value0, 0, data.reset_flag)
        value2 == write_bool_to_bit(value1, 1, data.driver_error1)
        value3 == write_bool_to_bit(value2, 2, data.driver_error2)
        value4 == write_bool_to_bit(value3, 3, data.velocity_reached1)
        value5 == write_bool_to_bit(value4, 4, data.velocity_reached2)
        value6 == write_bool_to_bit(value5, 5, data.status_stop_l1)
        value7 == write_bool_to_bit(value6, 6, data.status_stop_l2)
    IN  value7

\* impl Default for MsLutStart
MsLutStart_default == [start_sin |-> Bits(0), start_sin90 |-> Bits(247)]

\* A faulty Default: MsLutStart's derived from the zero word like the others.
Register_default_zero(R) == Register_from_u32(R, Bits(0))

\* impl Default for R: Self::from(0u32) for every register type but MsLutStart.
Register_default(R) ==
    IF R = "MsLutStart" THEN MsLutStart_default ELSE Register_from_u32(R, Bits(0))

\* convert_to_signed_n: whether the i32 subtraction in (1 << bits) - 1
\* overflows; it is evaluated on the negative branch only, and 1 << bits is
\* i32::MIN for bits = 31.
convert_to_signed_n_overflows(from, bits) ==
    /\ (Shr(from, bits - 1) \cap Bits(1)) = Bits(1)
    /\ Shl(Bits(1), bits, 32) = {31}

\* What a call of convert_to_signed_n can do: return its value, or, where the
\* subtraction overflows, panic (overflow checks on) or return the value
\* computed with the wrapped difference (overflow checks off).
convert_to_signed_n_outcomes(from, bits) ==
    IF convert_to_signed_n_overflows(from, bits)
    THEN {[panic |-> TRUE, overflow |-> TRUE, value |-> {}],
          [panic |-> FALSE, overflow |-> TRUE, value |-> convert_to_signed_n(from, bits)]}
    ELSE {[panic |-> FALSE, overflow |-> FALSE, value |-> convert_to_signed_n(from, bits)]}

\* ------------------------------------------------------------------------
\* The register codec, driven by a caller
\* ------------------------------------------------------------------------

\* The words a caller decodes and the field values it encodes are drawn from
\* bit patterns: the empty and the full word, every run of 1..MaxRun adjacent
\* 1 bits, the complement of each, and the two alternating words.
MaxRun == 2

Runs == {(s..(s + l - 1)) \cap U32_MAX : s \in 0..31, l \in 1..MaxRun}

Patterns ==
    {{}, U32_MAX, {i \in U32_MAX : i % 2 = 0}, {i \in U32_MAX : i % 2 = 1}}
        \cup Runs \cup {U32_MAX \ r : r \in Runs}

\* The values the tests of the source encode (lib.rs test::test, and the
\* to_u32 tests of the register files): Default with some fields set.
TestValues ==
    { [reg |-> "GConf",
       value |-> [Register_default("GConf") EXCEPT !.poscmp_enable = TRUE]],
      [reg |-> "ChopConf",
       value |-> [Register_default("ChopConf") EXCEPT
                     !.toff = Bits(5), !.hstrt = Bits(4), !.hend = Bits(1),
                     !.tbl = Bits(2), !.chm = FALSE]],
      [reg |-> "IHoldIRun",
       value |-> [Register_default("IHoldIRun") EXCEPT
                     !.i_hold = Bits(5), !.i_run = Bits(31), !.i_hold_delay = Bits(1)]],
      [reg |-> "PwmConf",
       value |-> [Register_default("PwmConf") EXCEPT
                     !.pwm_autoscale = TRUE, !.pwm_freq = Bits(0),
                     !.pwm_ampl = Bits(200), !.pwm_grad = Bits(1)]],
      [reg |-> "CoolConf",
       value |-> [Register_default("CoolConf") EXCEPT
                     !.sgt = {6, 7}, !.seup = Bits(3), !.semin = Bits(5),
                     !.sfilt = TRUE]],
      [reg |-> "MsLutStart",
       value |-> [Register_default("MsLutStart") EXCEPT !.start_sin90 = Bits(247)]] }

\* The i8 values -64..63: 0..63, and 64 added to the pattern of -128 + 0..63.
SgtValues == SUBSET (0..5) \cup {s \cup {6, 7} : s \in SUBSET (0..5)}

\* The value of field f's integer type that has the low bits of pattern p.
TypeField(f, p) == IF f.kind = "bool" THEN 0 \in p ELSE p \cap (0..(f.ty - 1))

\* R::from(0) with field number i set to u.
OneField(R, i, u) == [Register_from_u32(R, Bits(0)) EXCEPT ![Fields(R)[i].name] = u]

\* R::from(0) with field i set to the least or greatest pattern of its type
\* and then another field j set likewise.
TwoFields(R) ==
    { [f |-> ij[1], g |-> ij[2],
       value |-> [OneField(R, ij[1], TypeField(Fields(R)[ij[1]], p))
                     EXCEPT ![Fields(R)[ij[2]].name] = TypeField(Fields(R)[ij[2]], q)]] :
        ij \in {x \in FieldIndex(R) \X FieldIndex(R) : x[1] # x[2]},
        p \in {{}, U32_MAX}, q \in {{}, U32_MAX} }

\* A value of R with field i at the least or greatest pattern of its type and
\* every other field at the least or greatest pattern of its own.
AllButField(R) ==
    { [f |-> i, g |-> 0,
       value |-> [n \in {Fields(R)[j].name : j \in FieldIndex(R)} |->
                     LET j == CHOOSE x \in FieldIndex(R) : Fields(R)[x].name = n
                     IN  TypeField(Fields(R)[j], IF j = i THEN p ELSE q)]] :
        i \in FieldIndex(R), p \in {{}, U32_MAX}, q \in {{}, U32_MAX} }

\* R::from(0) with one unsigned field set to a power of two that its integer
\* type holds and its declared width does not.
Oversized(R) ==
    { [f |-> ik[1], bit |-> ik[2], value |-> OneField(R, ik[1], {ik[2]})] :
        ik \in {x \in FieldIndex(R) \X (0..31) :
                  /\ Fields(R)[x[1]].kind = "unsigned"
                  /\ x[2] >= Fields(R)[x[1]].width
                  /\ x[2] < Fields(R)[x[1]].ty} }

\* The widths convert_to_signed_n is used with.
Widths == 1..31

\* The raw values and widths handed to convert_to_signed_n: for each width W
\* the values 0, 2^(W-1)-1, 2^(W-1), 2^W-1, 2^(W-1)+1 and 1.
SignedArgs ==
    UNION { { [from |-> v, bits |-> w] :
                v \in {{}, 0..(w - 2), {w - 1}, 0..(w - 1), {w - 1} \cup {0}, {0}} } :
            w \in Widths }

\* The i32 values and widths handed to convert_from_signed_n: for each width
\* W the values -2^(W-1), 2^(W-1)-1, -1, 0, 1 and -2, which W bits hold, and
\* i32::MIN, i32::MAX and 0x55667788.
FromSignedArgs ==
    UNION { { [from |-> v, bits |-> w] :
                v \in {(w - 1)..31, 0..(w - 2), U32_MAX, {}, {0}, 1..31,
                       {31}, 0..30, Bits(\h55667788)} } :
            w \in Widths }

\* The arguments handed to write_from_bit::<u32>: the words, masks and values
\* of the test bits::write and some more, at every offset.
WriteArgs ==
    [ word : {Bits(0), U32_MAX, (U32_MAX \ Bits(\h7000))},
      from : 0..31,
      mask : {Bits(\h01), Bits(\h0F), Bits(\hFF), Bits(\hFF00), U32_MAX},
      value : {Bits(0), Bits(\h01), Bits(\h10), Bits(\h8F), Bits(\h5566),
               Bits(\h55667788), U32_MAX} ]

\* The bytes 0x00..0xFF.
Bytes == SUBSET (0..7)

CodecInit ==
    /\ creg \in RegisterTypes
    /\ cin \in [kind : {"word"}, word : Patterns]
            \cup {[kind |-> "word", word |-> Shl(r, 16, 32)] :
                      r \in IF creg = "CoolConf" THEN SUBSET (0..6) ELSE {}}
            \cup {[kind |-> "value", value |-> InRangeValue(creg, p)] : p \in Patterns}
            \cup {[kind |-> "value", value |-> t.value] : t \in {x \in TestValues : x.reg = creg}}
            \cup {[kind |-> "value", value |-> [Register_default(creg) EXCEPT !.sgt = s]] :
                      s \in IF creg = "CoolConf" THEN SgtValues ELSE {}}
            \cup {[kind |-> "fields", f |-> t.f, g |-> t.g, value |-> t.value] :
                      t \in TwoFields(creg) \cup AllButField(creg)}
            \cup {[kind |-> "default"], [kind |-> "addr"]}
            \cup {[kind |-> "sgt"] : x \in IF creg = "CoolConf" THEN {0} ELSE {}}
            \cup {[kind |-> "signed", from |-> a.from, bits |-> a.bits] :
                      a \in IF creg = "GConf" THEN SignedArgs ELSE {}}
            \cup {[kind |-> "from_signed", from |-> a.from, bits |-> a.bits] :
                      a \in IF creg = "GConf" THEN FromSignedArgs ELSE {}}
            \cup {[kind |-> "oversized", f |-> t.f, bit |-> t.bit, value |-> t.value] :
                      t \in Oversized(creg)}
            \cup {[kind |-> "write", word |-> a.word, from |-> a.from, mask |-> a.mask,
                    value |-> a.value] :
                      a \in IF creg = "GConf" THEN WriteArgs ELSE {}}
            \cup {[kind |-> "status", buf |-> <<b, Bits(\h01), Bits(\h02), Bits(\h03), Bits(\h04)>>,
                    unit |-> u] :
                      b \in IF creg = "GConf" THEN Bytes ELSE {}, u \in BOOLEAN}
    /\ cmid = {}
    /\ cout = {}
    /\ cstep = 0
    /\ EngineIdle

\* R::from(word)
FromU32 ==
    \/ /\ cin.kind = "word" /\ cstep = 0
       /\ cmid' = Register_from_u32(creg, cin.word)
       /\ cstep' = 1
       /\ UNCHANGED <<creg, cin, cout>>
       /\ UNCHANGED evars
    \/ /\ cin.kind = "value" /\ cstep = 1
       /\ cout' = Register_from_u32(creg, cmid)
       /\ cstep' = 2
       /\ UNCHANGED <<creg, cin, cmid>>
       /\ UNCHANGED evars

\* u32::from(value)
IntoU32 ==
    \/ /\ cin.kind \in {"value", "fields", "oversized"} /\ cstep = 0
       /\ cmid' = u32_from_Register(creg, cin.value)
       /\ cstep' = 1
       /\ UNCHANGED <<creg, cin, cout>>
       /\ UNCHANGED evars
    \/ /\ cin.kind \in {"word", "default"} /\ cstep = 1
       /\ cout' = u32_from_Register(creg, cmid)
       /\ cstep' = 2
       /\ UNCHANGED <<creg, cin, cmid>>
       /\ UNCHANGED evars

\* R::default()
DefaultValue ==
    /\ cin.kind = "default" /\ cstep = 0
    /\ cmid' = Register_default(creg)
    /\ cstep' = 1
    /\ UNCHANGED <<creg, cin, cout>>
    /\ UNCHANGED evars

\* R::addr(), for each channel R is implemented for
Addr ==
    /\ cin.kind = "addr" /\ cstep = 0
    /\ cmid' = [ch \in Channels(creg) |-> addr(creg, ch)]
    /\ cstep' = 1
    /\ UNCHANGED <<creg, cin, cout>>
    /\ UNCHANGED evars

\* convert_to_signed_n(from, bits)
ConvertToSigned ==
    \/ /\ cin.kind = "signed" /\ cstep = 0
       /\ cmid' \in convert_to_signed_n_outcomes(cin.from, cin.bits)
       /\ cstep' = 1
       /\ UNCHANGED <<creg, cin, cout>>
       /\ UNCHANGED evars
    \/ /\ cin.kind = "from_signed" /\ cstep = 1
       /\ cout' \in convert_to_signed_n_outcomes(cmid, cin.bits)
       /\ cstep' = 2
       /\ UNCHANGED <<creg, cin, cmid>>
       /\ UNCHANGED evars

\* convert_from_signed_n(from, bits); after a convert_to_signed_n that
\* panicked there is no value to convert.
ConvertFromSigned ==
    \/ /\ cin.kind = "from_signed" /\ cstep = 0
       /\ cmid' = convert_from_signed_n(cin.from, cin.bits)
       /\ cstep' = 1
       /\ UNCHANGED <<creg, cin, cout>>
       /\ UNCHANGED evars
    \/ /\ cin.kind = "signed" /\ cstep = 1
       /\ ~cmid.panic
       /\ cout' = convert_from_signed_n(cmid.value, cin.bits)
       /\ cstep' = 2
       /\ UNCHANGED <<creg, cin, cmid>>
       /\ UNCHANGED evars

\* CoolConf::from(r << 16).sgt for every raw field value r, and the sgt field
\* of u32::from(CoolConf { sgt, ..Default }) for every sgt in -64..63
SgtCodec ==
    /\ cin.kind = "sgt" /\ cstep = 0
    /\ cmid' = [ decode |-> [r \in SUBSET (0..6) |-> CoolConf_from_u32(Shl(r, 16, 32)).sgt],
                 encode |-> [s \in SgtValues |->
                     read_from_bit(u32_from_CoolConf([Register_default("CoolConf")
                                                          EXCEPT !.sgt = s]),
                                   16, Bits(\h7F))] ]
    /\ cstep' = 1
    /\ UNCHANGED <<creg, cin, cout>>
    /\ UNCHANGED evars

\* write_from_bit(&mut word, from, mask, value)
WriteFromBit ==
    /\ cin.kind = "write" /\ cstep = 0
    /\ cmid' = write_from_bit(cin.word, cin.from, cin.mask, cin.value)
    /\ cstep' = 1
    /\ UNCHANGED <<creg, cin, cout>>
    /\ UNCHANGED evars

\* SpiOk::<u32>::from_buffer(&buffer) or SpiOk::<()>::from_buffer(&buffer)
FromBuffer ==
    /\ cin.kind = "status" /\ cstep = 0
    /\ cmid' = IF cin.unit THEN SpiOk_unit_from_buffer(cin.buf)
                ELSE SpiOk_u32_from_buffer(cin.buf)
    /\ cstep' = 1
    /\ UNCHANGED <<creg, cin, cout>>
    /\ UNCHANGED evars

\* u8::from(status)
U8FromStatus ==
    /\ cin.kind = "status" /\ cstep = 1
    /\ cout' = u8_from_SpiStatus(cmid.status)
    /\ cstep' = 2
    /\ UNCHANGED <<creg, cin, cmid>>
    /\ UNCHANGED evars

CodecNext ==
    \/ FromU32
    \/ IntoU32
    \/ DefaultValue
    \/ Addr
    \/ ConvertToSigned
    \/ ConvertFromSigned
    \/ SgtCodec
    \/ WriteFromBit
    \/ FromBuffer
    \/ U8FromStatus

CodecSpec == CodecInit /\ [][CodecNext]_vars

\* ------------------------------------------------------------------------
\* A caller of both: the conversions on values of its own, or the driver
\* ------------------------------------------------------------------------

AllInit == Init \/ CodecInit

AllNext ==
    \/ CodecIdle /\ Next
    \/ EngineIdle /\ CodecNext

AllSpec == AllInit /\ [][AllNext]_vars

\* ------------------------------------------------------------------------
\* A caller of read_raw that keeps the error of one failed call
\* ------------------------------------------------------------------------

\* The caller keeps the Err value a read_raw has returned, with the number of
\* the call (1..6) of read_raw that failed.
Remember ==
    /\ cstep = 0
    /\ pc = "idle" /\ op.fn = "read_raw" /\ result.tag = "Err"
    /\ cmid' = [phase |-> Len(log), call |-> log[Len(log)].call,
                cause |-> log[Len(log)].err, err |-> result.err]
    /\ cstep' = 1
    /\ UNCHANGED <<creg, cin, cout>>
    /\ UNCHANGED evars

PhaseNext ==
    \/ New
    \/ ReadRaw
    \/ ReadSetLow1
    \/ ReadTransfer1
    \/ ReadSetHigh1
    \/ ReadSetLow2
    \/ ReadTransfer2
    \/ ReadSetHigh2
    \/ Remember

PhaseSpec == Init /\ [][PhaseNext]_vars

\* ------------------------------------------------------------------------
\* Properties of the register codec
\* ------------------------------------------------------------------------

\* C9: for every register type and every value whose fields lie within their
\* declared widths, decoding the encoded value gives the value back.
C9_RoundTripValue ==
    (cin.kind = "value" /\ cstep = 2) => cout = cin.value

\* C9 witness: a register with a negative signed field and another field set
\* has been encoded to a non-zero word and decoded again.
C9_Witness ==
    /\ cin.kind = "value" /\ cstep = 2
    /\ creg = "MsCurAct"
    /\ 15 \in cin.value.cur_a
    /\ cin.value.cur_b # {}
    /\ cmid # {}

\* C10: for every register type and every word x, encoding the decoded word
\* gives x restricted to the bits of the declared fields.
C10_RoundTripWord ==
    (cin.kind = "word" /\ cstep = 2) => cout = cin.word \cap FieldMask(creg)

\* C10 witness: a word with bits both inside and outside the declared fields
\* of a register with reserved bits has been decoded and encoded again.
C10_Witness ==
    /\ cin.kind = "word" /\ cstep = 2
    /\ creg = "CoolConf"
    /\ cin.word \cap FieldMask(creg) # {}
    /\ cin.word \ FieldMask(creg) # {}
    /\ 22 \in cin.word

\* The value a test of the source encodes for register type R.
TestValue(R) == (CHOOSE t \in TestValues : t.reg = R).value

\* The w bits of word from bit off on, as a number.
FieldAt(word, off, w) == Shr(word, off) \cap (0..(w - 1))

\* C11: the encoded word of ChopConf has toff at bits 0..3, hstrt at 4..6,
\* hend at 7..10, tbl at 15..16; of IHoldIRun i_hold at 0..4, i_run at 8..12,
\* i_hold_delay at 16..19; of PwmConf pwm_ampl at 0..7, pwm_grad at 8..15,
\* pwm_freq at 16..17, pwm_autoscale at 18; the four values of the tests
\* encode to 0x000100C5, 0x00011F05, 0x000401C8 and 0x00000008 and decode
\* back to themselves.
C11_FieldLayout ==
    (cin.kind = "value" /\ cstep >= 1) =>
        /\ creg = "ChopConf" =>
              /\ FieldAt(cmid, 0, 4) = cin.value.toff
              /\ FieldAt(cmid, 4, 3) = cin.value.hstrt
              /\ FieldAt(cmid, 7, 4) = cin.value.hend
              /\ FieldAt(cmid, 15, 2) = cin.value.tbl
              /\ cin.value = TestValue("ChopConf") => cmid = Bits(\h000100C5)
        /\ creg = "IHoldIRun" =>
              /\ FieldAt(cmid, 0, 5) = cin.value.i_hold
              /\ FieldAt(cmid, 8, 5) = cin.value.i_run
              /\ FieldAt(cmid, 16, 4) = cin.value.i_hold_delay
              /\ cin.value = TestValue("IHoldIRun") => cmid = Bits(\h00011F05)
        /\ creg = "PwmConf" =>
              /\ FieldAt(cmid, 0, 8) = cin.value.pwm_ampl
              /\ FieldAt(cmid, 8, 8) = cin.value.pwm_grad
              /\ FieldAt(cmid, 16, 2) = cin.value.pwm_freq
              /\ (18 \in cmid) = cin.value.pwm_autoscale
              /\ cin.value = TestValue("PwmConf") => cmid = Bits(\h000401C8)
        /\ (creg = "GConf" /\ cin.value = TestValue("GConf")) => cmid = Bits(\h00000008)
        /\ (creg \in {"ChopConf", "IHoldIRun", "PwmConf", "GConf"} /\ cstep = 2) =>
              cout = cin.value

\* C11 witness: the ChopConf value of the test has been encoded to
\* 0x000100C5 and decoded again.
C11_Witness ==
    /\ cin.kind = "value" /\ cstep = 2
    /\ creg = "ChopConf"
    /\ cin.value = TestValue("ChopConf")
    /\ cin.value.toff = Bits(5) /\ cin.value.tbl = Bits(2)
    /\ cmid = Bits(\h000100C5)

\* C12: for every width W in 1..31, convert_to_signed_n(2^(W-1), W) is
\* -2^(W-1), convert_to_signed_n(2^(W-1)-1, W) is 2^(W-1)-1 and
\* convert_to_signed_n(2^W-1, W) is -1, and no operation of the computation
\* overflows the 32-bit signed integers.
C12_SignedBoundaries ==
    (cin.kind = "signed" /\ cstep = 1) =>
        LET W == cin.bits
        IN  /\ ~cmid.overflow
            /\ ~cmid.panic
            /\ cin.from = {W - 1} => cmid.value = (W - 1)..31
            /\ cin.from = 0..(W - 2) => cmid.value = 0..(W - 2)
            /\ cin.from = 0..(W - 1) => cmid.value = U32_MAX
            /\ (W = 1 /\ cin.from = Bits(1)) => cmid.value = U32_MAX
            /\ (W = 8 /\ cin.from = Bits(\h80)) => cmid.value = U32_MAX \ Bits(\h7F)
            /\ (W = 9 /\ cin.from = Bits(\h100)) => cmid.value = U32_MAX \ Bits(\hFF)

\* The number a bit pattern of at most 8 bits stands for, unsigned and as i8.
RECURSIVE Num(_)
Num(s) == IF s = {} THEN 0
          ELSE LET k == CHOOSE x \in s : TRUE IN 2^k + Num(s \ {k})

Int8(s) == IF 7 \in s THEN Num(s) - 256 ELSE Num(s)

\* C13: every sgt in -64..63 of CoolConf encodes into the 7-bit field at bits
\* 16..22, a negative one as (NOT(-(sgt + 1)) AND 0x3F) with bit 6 set (NOT x
\* AND 0x3F is 63 - x for x in 0..63), a non-negative one unchanged with bit 6
\* clear, and decodes back to the same sgt; -64 encodes to the field value
\* 0x40, 0 to 0x00, and {sgt: -64, seup: 3, semin: 5, sfilt: true} encodes to
\* 0x01400065 and decodes back.
C13_SgtCodec ==
    (cin.kind = "value" /\ creg = "CoolConf" /\ cstep >= 1 /\ cin.value.sgt \in SgtValues) =>
        LET sgt == Int8(cin.value.sgt)
            field == FieldAt(cmid, 16, 7)
        IN  /\ sgt \in -64..63
            /\ sgt < 0 => (Num(field) = (63 - (-(sgt + 1))) + 64 /\ 6 \in field)
            /\ sgt >= 0 => (Num(field) = sgt /\ 6 \notin field)
            /\ sgt = -64 => field = Bits(\h40)
            /\ sgt = 0 => field = Bits(\h00)
            /\ cin.value = TestValue("CoolConf") => cmid = Bits(\h01400065)
            /\ cstep = 2 => (Int8(cout.sgt) = sgt /\ cout = cin.value)

\* C13 witness: {sgt: -64, seup: 3, semin: 5, sfilt: true} has been encoded
\* to 0x01400065 and decoded again.
C13_Witness ==
    /\ cin.kind = "value" /\ creg = "CoolConf" /\ cstep = 2
    /\ cin.value = TestValue("CoolConf")
    /\ Int8(cin.value.sgt) = -64
    /\ cmid = Bits(\h01400065)
    /\ cout.sgt = {6, 7}

\* The addresses the tests of registers/mod.rs document, per register type and
\* channel.
DocumentedAddr ==
    [ EncMode |-> <<Bits(\h38), Bits(\h58)>>,
      XEnc |-> <<Bits(\h39), Bits(\h59)>>,
      EncConst |-> <<Bits(\h3A), Bits(\h5A)>>,
      EncStatus |-> <<Bits(\h3B), Bits(\h5B)>>,
      EncLatch |-> <<Bits(\h3C), Bits(\h5C)>>,
      GConf |-> <<Bits(\h00)>>,
      GStat |-> <<Bits(\h01)>>,
      IfCnt |-> <<Bits(\h02)>>,
      SlaveConf |-> <<Bits(\h03)>>,
      Input |-> <<Bits(\h04)>>,
      Output |-> <<Bits(\h04)>>,
      XCompare |-> <<Bits(\h05)>>,
      MsLut0 |-> <<Bits(\h60)>>,
      MsLut1 |-> <<Bits(\h61)>>,
      MsLut2 |-> <<Bits(\h62)>>,
      MsLut3 |-> <<Bits(\h63)>>,
      MsLut4 |-> <<Bits(\h64)>>,
      MsLut5 |-> <<Bits(\h65)>>,
      MsLut6 |-> <<Bits(\h66)>>,
      MsLut7 |-> <<Bits(\h67)>>,
      MsLutSel |-> <<Bits(\h68)>>,
      MsLutStart |-> <<Bits(\h69)>>,
      MsCnt |-> <<Bits(\h6A), Bits(\h7A)>>,
      MsCurAct |-> <<Bits(\h6B), Bits(\h7B)>>,
      ChopConf |-> <<Bits(\h6C), Bits(\h7C)>>,
      CoolConf |-> <<Bits(\h6D), Bits(\h7D)>>,
      DcCtrl |-> <<Bits(\h6E), Bits(\h7E)>>,
      DrvStatus |-> <<Bits(\h6F), Bits(\h7F)>>,
      IHoldIRun |-> <<Bits(\h30), Bits(\h50)>>,
      VCoolThrs |-> <<Bits(\h31), Bits(\h51)>>,
      VHigh |-> <<Bits(\h32), Bits(\h52)>>,
      VDcMin |-> <<Bits(\h33), Bits(\h53)>>,
      SwMode |-> <<Bits(\h34), Bits(\h54)>>,
      RampStat |-> <<Bits(\h35), Bits(\h55)>>,
      XLatch |-> <<Bits(\h36), Bits(\h56)>>,
      RampMode |-> <<Bits(\h20), Bits(\h40)>>,
      XActual |-> <<Bits(\h21), Bits(\h41)>>,
      VActual |-> <<Bits(\h22), Bits(\h42)>>,
      VStart |-> <<Bits(\h23), Bits(\h43)>>,
      A1 |-> <<Bits(\h24), Bits(\h44)>>,
      V1 |-> <<Bits(\h25), Bits(\h45)>>,
      AMax |-> <<Bits(\h26), Bits(\h46)>>,
      VMax |-> <<Bits(\h27), Bits(\h47)>>,
      DMax |-> <<Bits(\h28), Bits(\h48)>>,
      D1 |-> <<Bits(\h2A), Bits(\h4A)>>,
      VStop |-> <<Bits(\h2B), Bits(\h4B)>>,
      TZeroWait |-> <<Bits(\h2C), Bits(\h4C)>>,
      XTarget |-> <<Bits(\h2D), Bits(\h4D)>>,
      PwmConf |-> <<Bits(\h10), Bits(\h18)>>,
      PwmStatus |-> <<Bits(\h11), Bits(\h19)>> ]

\* C14: addr() of every register type and channel is its documented constant;
\* Input and Output both have address 0x04 and are the only two register
\* types sharing an address; every address is at most 0x7F.
C14_Addresses ==
    (cin.kind = "addr" /\ cstep = 1) =>
        /\ DOMAIN cmid = 0..(Len(DocumentedAddr[creg]) - 1)
        /\ \A ch \in DOMAIN cmid :
              /\ cmid[ch] = DocumentedAddr[creg][ch + 1]
              /\ cmid[ch] \subseteq Bits(\h7F)
              /\ creg \in {"Input", "Output"} => cmid[ch] = Bits(\h04)
              /\ \A ch2 \in DOMAIN cmid : cmid[ch2] = cmid[ch] => ch2 = ch
              /\ \A R2 \in RegisterTypes \ {creg} : \A ch2 \in Channels(R2) :
                    addr(R2, ch2) = cmid[ch] => {creg, R2} = {"Input", "Output"}
        /\ creg = "GConf" => cmid[0] = Bits(\h00)
        /\ creg = "PwmConf" => (cmid[0] = Bits(\h10) /\ cmid[1] = Bits(\h18))
        /\ creg = "RampMode" => (cmid[0] = Bits(\h20) /\ cmid[1] = Bits(\h40))
        /\ creg = "XTarget" => (cmid[0] = Bits(\h2D) /\ cmid[1] = Bits(\h4D))
        /\ creg = "IHoldIRun" => (cmid[0] = Bits(\h30) /\ cmid[1] = Bits(\h50))
        /\ creg = "XLatch" => (cmid[0] = Bits(\h36) /\ cmid[1] = Bits(\h56))
        /\ creg = "MsLutStart" => cmid[0] = Bits(\h69)
        /\ creg = "MsCnt" => (cmid[0] = Bits(\h6A) /\ cmid[1] = Bits(\h7A))
        /\ creg = "DrvStatus" => (cmid[0] = Bits(\h6F) /\ cmid[1] = Bits(\h7F))

\* C14 witness: the addresses of DrvStatus, 0x6F and 0x7F, have been computed.
C14_Witness ==
    /\ cin.kind = "addr" /\ cstep = 1
    /\ creg = "DrvStatus"
    /\ cmid[1] = Bits(\h7F)

\* The seven flags of byte b, bit by bit.
FlagsOf(b) ==
    [ reset_flag |-> 0 \in b,
      driver_error1 |-> 1 \in b,
      driver_error2 |-> 2 \in b,
      velocity_reached1 |-> 3 \in b,
      velocity_reached2 |-> 4 \in b,
      status_stop_l1 |-> 5 \in b,
      status_stop_l2 |-> 6 \in b ]

\* C15: SpiStatus::from(b) sets reset_flag, driver_error1, driver_error2,
\* velocity_reached1, velocity_reached2, status_stop_l1 and status_stop_l2 to
\* bits 0..6 of b and ignores bit 7, so u8::from(SpiStatus::from(b)) is
\* b AND 0x7F for every byte b; and the status a successful read_raw,
\* write_raw, read_register or write_register returns is this decoding of
\* byte 0 of the last response of the operation.
C15_StatusByte ==
    /\ (cin.kind = "status" /\ cstep >= 1) =>
          /\ cmid.status = FlagsOf(cin.buf[1])
          /\ cstep = 2 => cout = cin.buf[1] \ {7}
    /\ (Finished /\ op.fn # "new" /\ result.tag = "Ok") =>
          result.ok.status = FlagsOf(Transfers[Len(Transfers)].rx[1])

\* C15 witness: the status of a response whose byte 0 is 0xAA has been
\* decoded and converted back to 0x2A.
C15_Witness ==
    /\ cin.kind = "status" /\ cstep = 2
    /\ cin.buf[1] = Bits(\hAA)
    /\ cmid.status.driver_error1 /\ ~cmid.status.reset_flag
    /\ cout = Bits(\h2A)

\* C16: for every register type but MsLutStart, Default is R::from(0), has
\* every field zero or false, and encodes to the word 0; MsLutStart's Default
\* is {start_sin: 0, start_sin90: 247}, differs from MsLutStart::from(0), and
\* encodes to 0x0000F700.
C16_Defaults ==
    (cin.kind = "default" /\ cstep >= 1) =>
        IF creg # "MsLutStart"
        THEN /\ \A i \in FieldIndex(creg) :
                   LET f == Fields(creg)[i]
                   IN  IF f.kind = "bool" THEN cmid[f.name] = FALSE ELSE cmid[f.name] = {}
             /\ cmid = Register_from_u32(creg, Bits(0))
             /\ cstep = 2 => cout = Bits(0)
        ELSE /\ cmid = [start_sin |-> Bits(0), start_sin90 |-> Bits(247)]
             /\ cmid # Register_from_u32("MsLutStart", Bits(0))
             /\ cstep = 2 => cout = Bits(\h0000F700)

\* C16 witness: MsLutStart's Default, with start_sin90 = 247, has been
\* encoded to 0x0000F700.
C16_Witness ==
    /\ cin.kind = "default" /\ cstep = 2
    /\ creg = "MsLutStart"
    /\ cmid.start_sin90 = Bits(247)
    /\ cout = Bits(\h0000F700)

\* C17: in the encoded word of a register value, the bits of field f's span
\* are determined by f's value alone: whatever the other fields hold, and in
\* particular for fields f # g and values u, v after f := u and then g := v,
\* the word has the same bits in f's span as the word of the value with
\* f := u alone.
C17_FieldIsolation ==
    (cin.kind = "fields" /\ cstep = 1) =>
        LET f == Fields(creg)[cin.f]
            alone == OneField(creg, cin.f, cin.value[f.name])
        IN  cmid \cap Span(f) = u32_from_Register(creg, alone) \cap Span(f)

\* C17 witness: ChopConf with hstrt := 0 and then toff := 255, a value wider
\* than toff's four bits, has been encoded.
C17_Witness ==
    /\ cin.kind = "fields" /\ cstep = 1
    /\ creg = "ChopConf"
    /\ Fields(creg)[cin.f].name = "hstrt" /\ cin.g # 0 /\ Fields(creg)[cin.g].name = "toff"
    /\ cin.value.hstrt = {} /\ cin.value.toff = Bits(\hFF)
    /\ cmid \cap (4..6) = {}

\* A read_raw has failed after the caller kept the error of an earlier failed
\* read_raw.
TwoFailures ==
    /\ cstep = 1
    /\ pc = "idle" /\ op.fn = "read_raw" /\ result.tag = "Err"

\* The phases of read_raw, by the number of the call: the priming exchange is
\* call 2 and the data exchange call 5; the line is asserted by calls 1 and 4
\* and deasserted by calls 3 and 6.
Priming == {2}
Data == {5}
SelectAssert == {1, 4}
SelectDeassert == {3, 6}

\* C19 as stated: the error value read_raw returns identifies the phase that
\* failed: a failure of the priming exchange and one of the data exchange
\* with the same transport error are different values, and so are a failure
\* of select-assert and one of select-deassert with the same pin error.
C19_PhaseIdentified ==
    (TwoFailures /\ cmid.cause = log[Len(log)].err) =>
        /\ (cmid.phase \in Priming /\ Len(log) \in Data) => result.err # cmid.err
        /\ (cmid.phase \in SelectAssert /\ Len(log) \in SelectDeassert) =>
              result.err # cmid.err

\* C19 amended: the error value read_raw returns identifies the kind of call
\* that failed and its error, not the phase: a failed exchange yields
\* SpiError(e) and a failed pin call CSError(c), which differ from each other;
\* two failures yield the same value iff the same kind of call failed with
\* the same error, so the priming and the data exchange failing with the same
\* transport error yield equal values, as do select-assert and
\* select-deassert failing with the same pin error.
C19_KindIdentified ==
    TwoFailures =>
        LET last == log[Len(log)]
        IN  /\ result.err.variant = IF last.call = "transfer" THEN "SpiError" ELSE "CSError"
            /\ result.err.value = last.err
            /\ (result.err = cmid.err) <=>
                  /\ (last.call = "transfer") <=> (cmid.call = "transfer")
                  /\ last.err = cmid.cause
            /\ (cmid.cause = last.err /\ cmid.phase \in Priming /\ Len(log) \in Data) =>
                  result.err = cmid.err
            /\ (cmid.cause = last.err /\ cmid.phase \in SelectAssert
                   /\ Len(log) \in SelectDeassert) => result.err = cmid.err

\* C19 witness: after a read_raw whose priming exchange failed with Overrun,
\* a read_raw whose data exchange failed with Overrun has returned.
C19_Witness ==
    /\ TwoFailures
    /\ cmid.phase = 2 /\ cmid.cause = "Overrun"
    /\ Len(log) = 5 /\ log[5].call = "transfer" /\ log[5].err = "Overrun"

\* C23 as stated: for every word, offset, mask and value,
\* write_from_bit(word, offset, mask, value) is
\* (word AND NOT(mask << offset)) OR ((value AND mask) << offset).
C23_WriteMasked ==
    (cin.kind = "write" /\ cstep = 1) =>
        cmid = (cin.word \ Shl(cin.mask, cin.from, 32))
                   \cup Shl(cin.value \cap cin.mask, cin.from, 32)

\* C23 amended: for every word, offset and mask, and every value that lies
\* within the mask (value AND mask = value), write_from_bit(word, offset,
\* mask, value) is (word AND NOT(mask << offset)) OR ((value AND mask) <<
\* offset): the masked bits are cleared, the value is ORed in, and every bit
\* outside the mask/offset span is unchanged.
C23_WriteWithinMask ==
    (cin.kind = "write" /\ cstep = 1 /\ cin.value \cap cin.mask = cin.value) =>
        LET span == {b \in U32_MAX : b >= cin.from /\ (b - cin.from) \in cin.mask}
        IN  /\ cmid = (cin.word \ Shl(cin.mask, cin.from, 32))
                          \cup Shl(cin.value \cap cin.mask, cin.from, 32)
            /\ cmid \ span = cin.word \ span
            /\ \A b \in span : (b \in cmid) <=> ((b - cin.from) \in cin.value)

\* C23 witness: write_from_bit(0xFFFF8FFF, 8, 0xFF, 0x8F), a value within its
\* mask, has given 0xFFFF8FFF, as in the test bits::write.
C23_Witness ==
    /\ cin.kind = "write" /\ cstep = 1
    /\ cin.word = (U32_MAX \ Bits(\h7000)) /\ cin.from = 8 /\ cin.mask = Bits(\hFF)
    /\ cin.value = Bits(\h8F)
    /\ cmid = (U32_MAX \ Bits(\h7000))

\* The bit a field set to 2^bit spills to.
SpillBit == Fields(creg)[cin.f].off + cin.bit

\* The encoding of a register value with one oversized field has been
\* computed.
OversizedEncoded(R, name, v) ==
    /\ cin.kind = "oversized" /\ cstep = 1
    /\ creg = R /\ Fields(creg)[cin.f].name = name /\ cin.value[name] = Bits(v)

\* C24 as stated: write_from_bit ORs in the value unmasked, so that a register
\* encode given an oversized field value, e.g. ChopConf.toff = 16 or
\* CoolConf.semin = 32, sets bits of a neighbouring field.
C24_SpillsIntoNeighbour ==
    /\ (cin.kind = "write" /\ cstep = 1) =>
          cmid = (cin.word \ Shl(cin.mask, cin.from, 32)) \cup Shl(cin.value, cin.from, 32)
    /\ OversizedEncoded("ChopConf", "toff", 16) => cmid \cap (4..6) # {}
    /\ OversizedEncoded("CoolConf", "semin", 32) => cmid \cap (5..6) # {}

\* C24 amended: write_from_bit ORs in the value unmasked, so one call with a
\* value exceeding mask sets bits above the field; in a register encode such
\* a bit stays set only where no field is declared (CoolConf.semin = 16 sets
\* bit 4), while a bit spilled into another field's span is overwritten when
\* that field is written (ChopConf.toff = 16 and CoolConf.semin = 32 both
\* encode to 0); no error is reported.
C24_SpillOverwritten ==
    /\ (cin.kind = "write" /\ cstep = 1) =>
          cmid = (cin.word \ Shl(cin.mask, cin.from, 32)) \cup Shl(cin.value, cin.from, 32)
    /\ (cin.kind = "oversized" /\ cstep = 1) =>
          /\ cmid \cap (FieldMask(creg) \ Span(Fields(creg)[cin.f])) = {}
          /\ cmid = {SpillBit} \cap (U32_MAX \ FieldMask(creg))
    /\ OversizedEncoded("ChopConf", "toff", 16) => cmid = Bits(0)
    /\ OversizedEncoded("CoolConf", "semin", 32) => cmid = Bits(0)
    /\ OversizedEncoded("CoolConf", "semin", 16) => cmid = Bits(\h10)

\* C24 witness: CoolConf with semin = 16, one more than its four bits hold,
\* has been encoded to 0x00000010.
C24_Witness ==
    /\ OversizedEncoded("CoolConf", "semin", 16)
    /\ SpillBit = 4
    /\ cmid = Bits(\h10)

\* C25 as stated: the sgt codec of CoolConf is distinct from 7-bit two's
\* complement: once every raw 7-bit field value has been decoded and every
\* sgt in -64..63 encoded, some raw r has an sgt other than
\* convert_to_signed_n(r, 7), or some sgt a field other than
\* convert_from_signed_n(sgt, 7).
C25_Distinct ==
    (cin.kind = "sgt" /\ cstep = 1) =>
        \/ \E r \in DOMAIN cmid.decode :
              SignExt(cmid.decode[r], 8) # convert_to_signed_n(r, 7)
        \/ \E s \in DOMAIN cmid.encode :
              cmid.encode[s] # convert_from_signed_n(SignExt(s, 8), 7)

\* C25 amended: the sgt codec of CoolConf coincides with 7-bit two's
\* complement: every raw 7-bit field value r decodes to the sgt
\* convert_to_signed_n(r, 7), and every sgt in -64..63 encodes to the field
\* convert_from_signed_n(sgt, 7).
C25_TwosComplement ==
    /\ (creg = "CoolConf" /\ cin.kind = "word" /\ cstep >= 1) =>
          SignExt(cmid.sgt, 8) = convert_to_signed_n(FieldAt(cin.word, 16, 7), 7)
    /\ (creg = "CoolConf" /\ cin.kind = "value" /\ cstep >= 1
           /\ cin.value.sgt \in SgtValues) =>
          FieldAt(cmid, 16, 7) = convert_from_signed_n(SignExt(cin.value.sgt, 8), 7)
    /\ (cin.kind = "sgt" /\ cstep = 1) =>
          /\ \A r \in DOMAIN cmid.decode :
                SignExt(cmid.decode[r], 8) = convert_to_signed_n(r, 7)
          /\ \A s \in DOMAIN cmid.encode :
                cmid.encode[s] = convert_from_signed_n(SignExt(s, 8), 7)

\* C25 witness: the raw field value 0x7F has been decoded to sgt = -1.
C25_Witness ==
    /\ creg = "CoolConf" /\ cin.kind = "word" /\ cstep = 1
    /\ cin.word = Bits(\h007F0000)
    /\ cmid.sgt = Bits(\hFF)

\* The addresses of a per-channel register type have been computed.
PerChannelAddr == cin.kind = "addr" /\ cstep = 1 /\ DOMAIN cmid = {0, 1}

\* The address of channel 1 minus the address of channel 0.
ChannelOffset == Num(cmid[1]) - Num(cmid[0])

\* C26 as stated: for every per-channel register type, the address of channel
\* 1 minus that of channel 0 is 0x20 for the ramp-generator registers and
\* 0x10 or 0x20 for every other per-channel register.
C26_ChannelOffsets ==
    PerChannelAddr =>
        IF creg \in DOMAIN ramp_generator_register
        THEN ChannelOffset = 32
        ELSE ChannelOffset \in {16, 32}

\* C26 amended: for every per-channel register type, the address of channel 1
\* minus that of channel 0 is 0x20 for the ramp-generator registers, 0x08 for
\* the PWM registers PwmConf and PwmStatus, and 0x10 or 0x20 for every other
\* per-channel register (0x10 for the motor-driver registers, 0x20 for the
\* feature-control and encoder registers).
C26_ChannelOffsetsPwm ==
    PerChannelAddr =>
        /\ creg \in DOMAIN ramp_generator_register => ChannelOffset = 32
        /\ creg \in {"PwmConf", "PwmStatus"} <=> ChannelOffset = 8
        /\ creg \in DOMAIN motor_driver_register => ChannelOffset = 16
        /\ creg \in DOMAIN ramp_generator_driver_feature_control_register
                        \cup DOMAIN encoder_registers => ChannelOffset = 32
        /\ ChannelOffset \in {8, 16, 32}

\* C26 witness: the addresses of PwmConf, 0x10 and 0x18, have been computed.
C26_Witness ==
    /\ PerChannelAddr
    /\ creg = "PwmConf"
    /\ cmid[0] = Bits(\h10) /\ cmid[1] = Bits(\h18)
    /\ ChannelOffset = 8

\* C27: the full-width position fields x_actual, x_target, x_enc and x_latch
\* decode the 32-bit word as a signed 32-bit integer with the bits of the
\* word, so that a word w >= 2^31 decodes to the negative number w - 2^32,
\* and encode back to the word.
C27_FullWidthSigned ==
    (creg \in {"XActual", "XTarget", "XEnc", "XLatch"} /\ cin.kind = "word" /\ cstep >= 1) =>
        LET f == Fields(creg)[1]
        IN  /\ f.width = 32
            /\ cmid[f.name] = cin.word
            /\ IsNegative(f, cmid[f.name]) <=> 31 \in cin.word
            /\ cstep = 2 => cout = cin.word

\* Whether W bits hold the i32 value v: v is in -2^(W-1)..2^(W-1)-1, its bits
\* W-1..31 are all equal.
HeldBy(v, W) == ((W - 1)..31) \subseteq v \/ ((W - 1)..31) \cap v = {}

\* C28: for every width W in 1..31, convert_from_signed_n(v, W) lies in
\* 0..2^W-1 for every i32 v, convert_to_signed_n(convert_from_signed_n(v, W), W)
\* returns v for every v in -2^(W-1)..2^(W-1)-1, and
\* convert_from_signed_n(convert_to_signed_n(u, W), W) returns u for every raw
\* u in 0..2^W-1.
C28_SignedRoundTrip ==
    /\ (cin.kind = "from_signed" /\ cstep >= 1) => cmid \subseteq 0..(cin.bits - 1)
    /\ (cin.kind = "from_signed" /\ cstep = 2 /\ HeldBy(cin.from, cin.bits)) =>
           ~cout.panic /\ cout.value = cin.from
    /\ (cin.kind = "signed" /\ cstep >= 1) => ~cmid.panic
    /\ (cin.kind = "signed" /\ cstep = 2) => cout = cin.from
====
